---- MODULE Spec2Model ----
(***************************************************************************)
(* PotionTracker: the routing / scheduling core of the backend.            *)
(*                                                                         *)
(*   backend/utils/route_optimization.py  Graph, build_graph,              *)
(*                                        optimize_route,                  *)
(*                                        optimize_courier_route           *)
(*   backend/utils/scheduling.py          create_daily_schedule            *)
(*                                                                         *)
(* Numbers.  Volumes are litres, travel times minutes, distances km, all   *)
(* integers; brew rates are thousandths of a litre per hour (RateScale),   *)
(* so that HIGH_RATE_THRESHOLD = 4.166 L/h is the integer 4166.  Every     *)
(* max_volume drawn is a multiple of 5, so max_volume * 0.8 is an integer. *)
(* Python's float rounding is not modelled: sums and products are exact.   *)
(* Coordinates lie on the equator (latitude 0, whole degrees of            *)
(* longitude), where the haversine formula is linear in the difference of  *)
(* the longitudes.                                                         *)
(***************************************************************************)
EXTENDS Integers, Sequences, FiniteSets, TLC

VARIABLES
    graph,      \* the Graph object
    built,      \* how the graph came to be: "new", "calls", "build_graph"
    result,     \* the last call on the graph or the route optimizer, with what it returned
    env,        \* what the reference-data and history services hold
    sched,      \* the locals of a run of create_daily_schedule, and its plan
    fcst,       \* the last call of forecast_levels for one cauldron, with its forecast
    slp,        \* the last reading series given to the rate estimation, with its runs
    tcp,        \* the TCPServer object, its threads and its connections
    app         \* the threads of app.py and the shutdown event

vars == <<graph, built, result, env, sched, fcst, slp, tcp, app>>

\* the variables of the scheduler
schedVars == <<env, sched>>

\* the variables of the forecaster, the rate estimation and the servers
ioVars == <<fcst, slp, tcp, app>>

(***************************************************************************)
(* Bounds of the model                                                     *)
(***************************************************************************)
\* directed edges a Graph is given by add_edge calls
MaxEdges == 2
\* entries of the edge feed handed to build_graph
MaxFeed == 3
\* length of the cauldrons_to_visit list of a routing call
MaxVisit == 3
\* cauldrons of a scheduling run
MaxCauldrons == 3

(***************************************************************************)
(* Values                                                                  *)
(***************************************************************************)
\* site ids in Python's string order ('c1' < ... < 'c4' < 'market'): heapq
\* compares the node ids of two queue entries of equal time
SiteOrder == <<"c1", "c2", "c3", "c4", "market">>

SiteIds == {SiteOrder[i] : i \in 1..Len(SiteOrder)}

Rank(s) == CHOOSE i \in 1..Len(SiteOrder) : SiteOrder[i] = s

\* float('inf')
Inf == 1000000

\* Python's None where a number is optional (distance of add_edge)
None == -1

\* R * pi / 180 = 6371 * 0.0174533 = 111.19 km per degree, rounded down
KmPerDegree == 111

\* the assumed average speed of the straight-line estimate, km/h
SpeedKmh == 30

Range(s) == {s[i] : i \in 1..Len(s)}

Abs(x) == IF x < 0 THEN -x ELSE x

MinOf(S) == CHOOSE x \in S : \A y \in S : x <= y

RECURSIVE SumSeq(_)
SumSeq(s) == IF s = <<>> THEN 0 ELSE Head(s) + SumSeq(Tail(s))

\* all orders in which a Python set can be iterated
RECURSIVE Orders(_)
Orders(S) ==
    IF S = {} THEN {<<>>}
    ELSE UNION {{<<x>> \o p : p \in Orders(S \ {x})} : x \in S}

\* the empty dict
EmptyMap == [x \in {} |-> 0]

Put(f, k, v) == [x \in DOMAIN f \cup {k} |-> IF x = k THEN v ELSE f[x]]

(***************************************************************************)
(* haversine_distance, on the equator                                      *)
(***************************************************************************)
haversine_distance(lat1, lon1, lat2, lon2) == KmPerDegree * Abs(lon2 - lon1)

(***************************************************************************)
(* class Graph                                                             *)
(***************************************************************************)
\* node attributes: coords says whether the dict has 'latitude' and
\* 'longitude'
Attrs(lat, lon) == [coords |-> TRUE, latitude |-> lat, longitude |-> lon]

NoAttrs == [coords |-> FALSE, latitude |-> 0, longitude |-> 0]

\* Graph.__init__
NewGraph == [nodes |-> EmptyMap, edges |-> EmptyMap]

add_node(g, node_id, attributes) ==
    [g EXCEPT !.nodes = Put(g.nodes, node_id, attributes)]

\* add_edge reads to_node_data['latitude'] after testing the from node only:
\* a KeyError when the to node has no coordinates
add_edge_raises(g, from_node, to_node, distance) ==
    /\ distance = None
    /\ from_node \in DOMAIN g.nodes
    /\ to_node \in DOMAIN g.nodes
    /\ g.nodes[from_node].coords
    /\ ~g.nodes[to_node].coords

add_edge(g, from_node, to_node, travel_time, distance) ==
    LET e0 == IF from_node \in DOMAIN g.edges THEN g.edges[from_node] ELSE EmptyMap
        d0 == IF /\ distance = None
                 /\ from_node \in DOMAIN g.nodes
                 /\ to_node \in DOMAIN g.nodes
                 /\ g.nodes[from_node].coords
              THEN haversine_distance(g.nodes[from_node].latitude,
                                      g.nodes[from_node].longitude,
                                      g.nodes[to_node].latitude,
                                      g.nodes[to_node].longitude)
              ELSE distance
        \* distance or 0.0
        d == IF d0 = None THEN 0 ELSE d0
    IN [g EXCEPT !.edges =
            Put(g.edges, from_node,
                Put(e0, to_node, [travel_time |-> travel_time, distance |-> d]))]

\* get_neighbors reporting every edge with distance 0
get_neighbors_flat(g, node_id) ==
    IF node_id \notin DOMAIN g.edges THEN {}
    ELSE {[neighbor |-> n,
           travel_time |-> g.edges[node_id][n].travel_time,
           distance |-> 0] : n \in DOMAIN g.edges[node_id]}

\* the neighbours of a node with their edge weights
get_neighbors(g, node_id) ==
    IF node_id \notin DOMAIN g.edges THEN {}
    ELSE {[neighbor |-> n,
           travel_time |-> g.edges[node_id][n].travel_time,
           distance |-> g.edges[node_id][n].distance] : n \in DOMAIN g.edges[node_id]}

\* Python's list comparison of two paths (lists of node ids)
RECURSIVE PathLess(_, _)
PathLess(p, q) ==
    IF p = <<>> THEN q # <<>>
    ELSE IF q = <<>> THEN FALSE
    ELSE IF Head(p) # Head(q) THEN Rank(Head(p)) < Rank(Head(q))
    ELSE PathLess(Tail(p), Tail(q))

\* Python's tuple comparison of two queue entries
\* (total_time, current_node, path, total_distance)
EntryLess(a, b) ==
    \/ a.time < b.time
    \/ /\ a.time = b.time
       /\ \/ Rank(a.node) < Rank(b.node)
          \/ /\ a.node = b.node
             /\ \/ PathLess(a.path, b.path)
                \/ a.path = b.path /\ a.distance < b.distance

\* a queue that pops its greatest entry
HeapMin_greatest(pq) == CHOOSE e \in pq : \A f \in pq \ {e} : EntryLess(f, e)

\* heapq.heappop: the least entry of the queue
HeapMin(pq) == CHOOSE e \in pq : \A f \in pq \ {e} : EntryLess(e, f)

Unreachable == [path |-> <<>>, time |-> Inf, distance |-> Inf]

RECURSIVE DijkstraLoop(_, _, _, _)
DijkstraLoop(g, end, pq, visited) ==
    IF pq = {} THEN Unreachable
    ELSE LET e == HeapMin(pq)
             rest == pq \ {e}
         IN IF e.node \in visited THEN DijkstraLoop(g, end, rest, visited)
            ELSE IF e.node = end
                 THEN [path |-> e.path, time |-> e.time, distance |-> e.distance]
            ELSE LET seen == visited \cup {e.node}
                     pushed == {[time |-> e.time + n.travel_time,
                                 node |-> n.neighbor,
                                 path |-> Append(e.path, n.neighbor),
                                 distance |-> e.distance + n.distance] :
                                    n \in {m \in get_neighbors(g, e.node) :
                                                m.neighbor \notin seen}}
                 IN DijkstraLoop(g, end, rest \cup pushed, seen)

\* dijkstra without the test of line 73
dijkstra_unchecked(g, start, end) ==
    DijkstraLoop(g, end,
                 {[time |-> 0, node |-> start, path |-> <<start>>, distance |-> 0]},
                 {})

\* Graph.dijkstra: (path, total_time, total_distance)
dijkstra(g, start, end) ==
    IF start \notin DOMAIN g.nodes \/ end \notin DOMAIN g.nodes THEN Unreachable
    ELSE DijkstraLoop(g, end,
                      {[time |-> 0, node |-> start, path |-> <<start>>, distance |-> 0]},
                      {})

(***************************************************************************)
(* build_graph                                                             *)
(***************************************************************************)
\* the loop over network_data['edges']: each feed edge and its reverse
RECURSIVE AddFeedEdges(_, _)
AddFeedEdges(g, edges) ==
    IF edges = <<>> THEN g
    ELSE LET edge == Head(edges)
             g1 == add_edge(g, edge.from, edge.to,
                            edge.travel_time_minutes, edge.distance_km)
             g2 == add_edge(g1, edge.to, edge.from,
                            edge.travel_time_minutes, edge.distance_km)
         IN AddFeedEdges(g2, Tail(edges))

\* the loop over the cauldrons
RECURSIVE AddCauldronNodes(_, _)
AddCauldronNodes(g, cauldrons) ==
    IF cauldrons = <<>> THEN g
    ELSE AddCauldronNodes(add_node(g, Head(cauldrons).id,
                                   Attrs(Head(cauldrons).latitude,
                                         Head(cauldrons).longitude)),
                          Tail(cauldrons))

\* build_graph without the reverse edges
RECURSIVE AddFeedEdgesOneWay(_, _)
AddFeedEdgesOneWay(g, edges) ==
    IF edges = <<>> THEN g
    ELSE AddFeedEdgesOneWay(add_edge(g, Head(edges).from, Head(edges).to,
                                     Head(edges).travel_time_minutes,
                                     Head(edges).distance_km),
                            Tail(edges))

build_graph_one_way(network_data, cauldrons, market) ==
    AddFeedEdgesOneWay(
        AddCauldronNodes(
            add_node(NewGraph, "market", Attrs(market.latitude, market.longitude)),
            cauldrons),
        network_data)

build_graph(network_data, cauldrons, market) ==
    AddFeedEdges(
        AddCauldronNodes(
            add_node(NewGraph, "market", Attrs(market.latitude, market.longitude)),
            cauldrons),
        network_data)

(***************************************************************************)
(* optimize_route                                                          *)
(*                                                                         *)
(* `for cauldron in unvisited` iterates a Python set of strings, whose     *)
(* order is not fixed; `time < min_time` keeps the first of several        *)
(* equally near cauldrons, so any of them can become `nearest`.  The       *)
(* operator returns the set of results the call can produce.               *)
(***************************************************************************)
HasCoords(g, a, b) ==
    /\ a \in DOMAIN g.nodes
    /\ b \in DOMAIN g.nodes
    /\ g.nodes[a].coords
    /\ g.nodes[b].coords

DirectDistance(g, a, b) ==
    haversine_distance(g.nodes[a].latitude, g.nodes[a].longitude,
                       g.nodes[b].latitude, g.nodes[b].longitude)

\* (direct_distance / 30.0) * 60
EstimatedTime(direct_distance) == (direct_distance * 60) \div SpeedKmh

\* what one pass of the inner for loop learns about one cauldron: whether it
\* can become `nearest`, at what time, with what nearest_path
Leg(g, current, cauldron) ==
    LET r == dijkstra(g, current, cauldron)
    IN IF r.path = <<>> \/ r.time = Inf
       THEN IF HasCoords(g, current, cauldron)
            THEN [ok |-> TRUE,
                  time |-> EstimatedTime(DirectDistance(g, current, cauldron)),
                  path |-> <<current, cauldron>>]
            ELSE [ok |-> FALSE, time |-> Inf, path |-> <<>>]
       ELSE [ok |-> TRUE, time |-> r.time, path |-> r.path]

\* "Get distance for this segment"
SegmentDistance(g, current, nearest, nearest_path) ==
    IF Len(nearest_path) > 1
    THEN LET d == dijkstra(g, current, nearest).distance
             sd == IF d = Inf /\ HasCoords(g, current, nearest)
                   THEN DirectDistance(g, current, nearest)
                   ELSE d
         IN IF sd # Inf THEN sd ELSE 0
    ELSE 0

\* ExtendRoute with the slice one node short
ExtendRoute_short(route, nearest, nearest_path) ==
    IF Len(nearest_path) > 1
    THEN route \o SubSeq(nearest_path, 2, Len(nearest_path) - 1)
    ELSE Append(route, nearest)

\* "Add path to route (skip first node as it's already in route)"
ExtendRoute(route, nearest, nearest_path) ==
    IF Len(nearest_path) > 1
    THEN route \o SubSeq(nearest_path, 2, Len(nearest_path))
    ELSE Append(route, nearest)

\* the while loop: the states in which it can end
RECURSIVE NearestNeighbor(_, _, _, _, _, _)
NearestNeighbor(g, route, unvisited, current, total_time, total_distance) ==
    IF unvisited = {}
    THEN {[route |-> route, current |-> current,
           time |-> total_time, distance |-> total_distance]}
    ELSE LET leg == [c \in unvisited |-> Leg(g, current, c)]
             cands == {c \in unvisited : leg[c].ok /\ leg[c].time < Inf}
         IN IF cands = {}
            THEN \* nearest is None: the rest is appended as it is iterated
                 {[route |-> route \o rest, current |-> current,
                   time |-> total_time, distance |-> total_distance] :
                      rest \in Orders(unvisited \ Range(route))}
            ELSE LET min_time == MinOf({leg[c].time : c \in cands})
                 IN UNION {NearestNeighbor(
                               g,
                               ExtendRoute(route, nearest, leg[nearest].path),
                               unvisited \ {nearest},
                               nearest,
                               total_time + min_time,
                               total_distance
                                 + SegmentDistance(g, current, nearest,
                                                   leg[nearest].path)) :
                             nearest \in {c \in cands : leg[c].time = min_time}}

\* ReturnToEnd without the return leg
ReturnToEnd_stays(g, s, end_node) == s

\* "Return to end node"
ReturnToEnd(g, s, end_node) ==
    IF s.current = end_node THEN s
    ELSE LET r == dijkstra(g, s.current, end_node)
         IN IF r.path # <<>> /\ r.time # Inf
            THEN [s EXCEPT !.route = s.route \o SubSeq(r.path, 2, Len(r.path)),
                           !.time = s.time + r.time,
                           !.distance = s.distance + r.distance]
            ELSE IF HasCoords(g, s.current, end_node)
            THEN [s EXCEPT !.route = Append(s.route, end_node),
                           !.time = s.time + EstimatedTime(
                                        DirectDistance(g, s.current, end_node)),
                           !.distance = s.distance
                                        + DirectDistance(g, s.current, end_node)]
            ELSE [s EXCEPT !.route = Append(s.route, end_node)]

\* "Ensure route has at least start, cauldrons, and end"
EnsureRoute(route, valid_cauldrons, start_node, end_node) ==
    IF Len(route) = 1 /\ route[1] = start_node
    THEN LET r == route \o valid_cauldrons
         IN IF end_node \notin Range(r) THEN Append(r, end_node) ELSE r
    ELSE route

RouteResult(route, time, distance) ==
    [route |-> route, time |-> time, distance |-> distance]

\* [start_node, end_node] if start_node != end_node else [start_node]
MarketRoute(start_node, end_node) ==
    RouteResult(IF start_node # end_node THEN <<start_node, end_node>>
                ELSE <<start_node>>, 0, 0)

optimize_route(g, cauldrons_to_visit, start_node, end_node) ==
    IF cauldrons_to_visit = <<>>
    THEN LET r == dijkstra(g, start_node, end_node)
         IN IF r.path = <<>> THEN {MarketRoute(start_node, end_node)}
            ELSE {RouteResult(r.path, r.time, r.distance)}
    ELSE LET valid_cauldrons ==
                 SelectSeq(cauldrons_to_visit, LAMBDA c : c \in DOMAIN g.nodes)
         IN IF valid_cauldrons = <<>> THEN {MarketRoute(start_node, end_node)}
            ELSE {LET f == ReturnToEnd(g, s, end_node)
                  IN RouteResult(EnsureRoute(f.route, valid_cauldrons,
                                             start_node, end_node),
                                 f.time, f.distance) :
                     s \in NearestNeighbor(g, <<start_node>>, Range(valid_cauldrons),
                                           start_node, 0, 0)}

(***************************************************************************)
(* optimize_courier_route                                                  *)
(***************************************************************************)
\* cauldron_volumes.get(cauldron_id, 0)
VolumeOf(cauldron_volumes, cauldron_id) ==
    IF cauldron_id \in DOMAIN cauldron_volumes THEN cauldron_volumes[cauldron_id]
    ELSE 0

\* Collect with `continue` in the place of `break`
RECURSIVE Collect_continue(_, _, _, _, _)
Collect_continue(cauldrons_to_visit, courier_capacity, cauldron_volumes, collectable, collected_volume) ==
    IF cauldrons_to_visit = <<>>
    THEN [collectable |-> collectable, collected_volume |-> collected_volume]
    ELSE LET cauldron_id == Head(cauldrons_to_visit)
             volume == VolumeOf(cauldron_volumes, cauldron_id)
         IN IF collected_volume + volume <= courier_capacity
            THEN Collect_continue(Tail(cauldrons_to_visit), courier_capacity,
                                  cauldron_volumes, Append(collectable, cauldron_id),
                                  collected_volume + volume)
            ELSE Collect_continue(Tail(cauldrons_to_visit), courier_capacity,
                                  cauldron_volumes, collectable, collected_volume)

\* the for loop with its break: (collectable, collected_volume)
RECURSIVE Collect(_, _, _, _, _)
Collect(cauldrons_to_visit, courier_capacity, cauldron_volumes, collectable, collected_volume) ==
    IF cauldrons_to_visit = <<>>
    THEN [collectable |-> collectable, collected_volume |-> collected_volume]
    ELSE LET cauldron_id == Head(cauldrons_to_visit)
             volume == VolumeOf(cauldron_volumes, cauldron_id)
         IN IF collected_volume + volume <= courier_capacity
            THEN Collect(Tail(cauldrons_to_visit), courier_capacity,
                         cauldron_volumes, Append(collectable, cauldron_id),
                         collected_volume + volume)
            ELSE [collectable |-> collectable,
                  collected_volume |-> collected_volume]

\* the set of (route, time, distance, collected_volume, collectable) the call
\* can return; collectable is the local list the route is computed for
optimize_courier_route(g, cauldrons_to_visit, courier_capacity, cauldron_volumes) ==
    LET c == Collect(cauldrons_to_visit, courier_capacity, cauldron_volumes,
                     <<>>, 0)
    IN IF c.collectable = <<>>
       THEN LET r == dijkstra(g, "market", "market")
            IN {[route |-> r.path, time |-> r.time, distance |-> r.distance,
                 collected_volume |-> 0, collectable |-> <<>>]}
       ELSE {[route |-> r.route, time |-> r.time, distance |-> r.distance,
              collected_volume |-> c.collected_volume,
              collectable |-> c.collectable] :
                r \in optimize_route(g, c.collectable, "market", "market")}

(***************************************************************************)
(* scheduling.py: the pure parts of create_daily_schedule                  *)
(***************************************************************************)
\* brew rates are thousandths of a litre per hour
RateScale == 1000

\* HIGH_RATE_THRESHOLD = 4.166 L/hour
HIGH_RATE_THRESHOLD == 4166

\* WITCH_CAPACITY = 100.0
WITCH_CAPACITY == 100

\* max_volume * 0.8
Pct80(max_volume) == (max_volume * 8) \div 10

Min2(a, b) == IF a <= b THEN a ELSE b

\* calculate_distance: the haversine formula again
calculate_distance(lat1, lon1, lat2, lon2) == KmPerDegree * Abs(lon2 - lon1)

\* the test of line 244 without `not market`
NoReferenceData_cauldrons(cauldrons, market) == cauldrons = <<>>

\* `not cauldrons or not market`
NoReferenceData(cauldrons, market) == cauldrons = <<>> \/ market = EmptyMap

\* the volume of a high-rate cauldron taken as 80% of max_volume, whatever
\* the current level
HighRateVolume_full(cauldron) == Pct80(cauldron.max_volume)

\* volume_to_collect = min(current_level, max_volume * 0.8)
HighRateVolume(cauldron) ==
    Min2(cauldron.current_level, Pct80(cauldron.max_volume))

\* one entry of the list forecast_levels returns (the fields the scheduler
\* reads); current_percentage is compared with 80 only, so its integer part
\* stands for it
ForecastRecord(info, reading) ==
    [cauldron_id |-> info.id,
     current_level |-> reading.level,
     max_volume |-> info.max_volume,
     current_percentage |-> IF info.max_volume > 0
                            THEN (reading.level * 100) \div info.max_volume
                            ELSE 0,
     brew_rate_liters_per_hour |-> reading.rate]

\* get_forecast: no forecast at all when the history is empty, else one
\* forecast per cauldron of cauldron_info
get_forecast(e, cauldrons) ==
    IF e.history_empty THEN <<>>
    ELSE [i \in 1..Len(cauldrons) |-> ForecastRecord(cauldrons[i], e.readings[i])]

\* the cauldron_data dict of categorize_cauldrons
CauldronData(forecast, cauldrons) ==
    LET known == {i \in 1..Len(cauldrons) : cauldrons[i].id = forecast.cauldron_id}
        info == cauldrons[CHOOSE i \in known : \A j \in known : j <= i]
    IN [cauldron_id |-> forecast.cauldron_id,
        brew_rate |-> forecast.brew_rate_liters_per_hour,
        current_level |-> forecast.current_level,
        max_volume |-> forecast.max_volume,
        current_percentage |-> forecast.current_percentage,
        latitude |-> IF known = {} THEN 0 ELSE info.latitude,
        longitude |-> IF known = {} THEN 0 ELSE info.longitude]

\* categorize_cauldrons: (high_rate_cauldrons, low_rate_cauldrons)
categorize_cauldrons(forecasts, cauldrons) ==
    LET data == [i \in 1..Len(forecasts) |-> CauldronData(forecasts[i], cauldrons)]
    IN [high |-> SelectSeq(data, LAMBDA c : c.brew_rate > HIGH_RATE_THRESHOLD),
        low |-> SelectSeq(data, LAMBDA c : ~(c.brew_rate > HIGH_RATE_THRESHOLD))]

PickupNeed(cauldron, volume_to_collect) ==
    [cauldron_id |-> cauldron.cauldron_id,
     volume_to_collect |-> volume_to_collect,
     current_level |-> cauldron.current_level,
     max_volume |-> cauldron.max_volume,
     latitude |-> cauldron.latitude,
     longitude |-> cauldron.longitude]

\* the body of the loop of identify_low_rate_pickups: the needs (none or one)
\* of one cauldron.  time_to_80h = remaining_to_80 / brew_rate <= 24 is
\* compared after multiplying by brew_rate > 0; then hours_until_pickup is
\* time_to_80h and volume_at_pickup = current_level + brew_rate * time_to_80h
\* = current_level + remaining_to_80.
LowRateNeed(cauldron) ==
    IF cauldron.current_percentage >= 80
    THEN <<PickupNeed(cauldron,
                      Min2(cauldron.current_level, Pct80(cauldron.max_volume)))>>
    ELSE IF cauldron.brew_rate > 0
    THEN LET remaining_to_80 == Pct80(cauldron.max_volume) - cauldron.current_level
             volume_at_pickup == cauldron.current_level + remaining_to_80
         IN IF remaining_to_80 * RateScale <= 24 * cauldron.brew_rate
            THEN <<PickupNeed(cauldron,
                              Min2(volume_at_pickup, Pct80(cauldron.max_volume)))>>
            ELSE <<>>
    ELSE <<>>

RECURSIVE identify_low_rate_pickups(_)
identify_low_rate_pickups(low_rate_cauldrons) ==
    IF low_rate_cauldrons = <<>> THEN <<>>
    ELSE LowRateNeed(Head(low_rate_cauldrons))
            \o identify_low_rate_pickups(Tail(low_rate_cauldrons))

\* sum(volumes.get(cid, 0.0) for cid in cauldrons_to_visit)
TotalVolume(cauldrons_to_visit, volumes) ==
    SumSeq([i \in 1..Len(cauldrons_to_visit) |->
                VolumeOf(volumes, cauldrons_to_visit[i])])

\* optimize_witch_route returning the capacity as the volume of every route
optimize_witch_route_full(g, cauldrons_to_visit, volumes) ==
    {[route |-> r.route, time |-> r.time, distance |-> r.distance,
      total_volume |-> WITCH_CAPACITY] :
        r \in optimize_route(g, cauldrons_to_visit, "market", "market")}

\* optimize_witch_route: the set of (route, time, distance, total_volume) the
\* call can return
optimize_witch_route(g, cauldrons_to_visit, volumes) ==
    IF cauldrons_to_visit = <<>>
    THEN LET r == dijkstra(g, "market", "market")
         IN {[route |-> r.path, time |-> r.time, distance |-> r.distance,
              total_volume |-> 0]}
    ELSE {[route |-> r.route, time |-> r.time, distance |-> r.distance,
           total_volume |-> TotalVolume(cauldrons_to_visit, volumes)] :
             r \in optimize_route(g, cauldrons_to_visit, "market", "market")}

\* the courier of the trip that courier_index opens
CourierName(couriers, courier_index) ==
    IF couriers # <<>> THEN couriers[(courier_index % Len(couriers)) + 1].name
    ELSE <<"Witch", courier_index + 1>>

CourierId(couriers, courier_index) ==
    IF couriers # <<>> THEN couriers[(courier_index % Len(couriers)) + 1].courier_id
    ELSE <<"courier_", courier_index + 1>>

\* the dict appended to assignments (start and end, wall-clock times, are
\* left out)
Assignment(couriers, courier_index, route, cauldrons_visited, travel_time, stop_time, collected_volume, distance, category) ==
    [courier |-> CourierName(couriers, courier_index),
     courier_id |-> CourierId(couriers, courier_index),
     route |-> route,
     cauldrons_visited |-> cauldrons_visited,
     travel_time_minutes |-> travel_time,
     total_time_minutes |-> travel_time + stop_time,
     volume_collected |-> collected_volume,
     total_brew_collected |-> collected_volume,
     distance_km |-> distance,
     category |-> category]

\* "Ensure route includes cauldron - rebuild if necessary"
HighRateRoute(route, cauldron_id) ==
    IF cauldron_id \notin Range(route) \/ Len(route) <= 1
    THEN <<"market", cauldron_id, "market">>
    ELSE route

\* one witch of a high-rate cauldron: the assignments list after the trip is
\* appended, for each route the optimizer can return
HighRateTrip(g, couriers, assignments, courier_index, cauldron_id, witch_volume) ==
    {Append(assignments,
            Assignment(couriers, courier_index,
                       HighRateRoute(r.route, cauldron_id), <<cauldron_id>>,
                       r.time, 15, r.total_volume, r.distance, "High Rate")) :
        r \in optimize_witch_route(g, <<cauldron_id>>,
                                   [c \in {cauldron_id} |-> witch_volume])}

\* the pickup the piggyback loop settles on for one assignment: the index in
\* remaining_pickups of the first nearest pickup that fits, 0 when none
BestPickup(g, assignment, remaining_pickups, spare_capacity) ==
    LET route == assignment.route
        last_cauldron_id == IF Len(route) > 1 THEN route[Len(route) - 1]
                            ELSE "market"
        last_lat == IF g.nodes[last_cauldron_id].coords
                    THEN g.nodes[last_cauldron_id].latitude ELSE 0
        last_lon == IF g.nodes[last_cauldron_id].coords
                    THEN g.nodes[last_cauldron_id].longitude ELSE 0
        dist(i) == calculate_distance(last_lat, last_lon,
                                      remaining_pickups[i].latitude,
                                      remaining_pickups[i].longitude)
        fits == {i \in 1..Len(remaining_pickups) :
                    remaining_pickups[i].volume_to_collect <= spare_capacity}
    IN IF last_cauldron_id \notin DOMAIN g.nodes \/ fits = {} THEN 0
       ELSE CHOOSE i \in fits :
                \A j \in fits : dist(i) < dist(j) \/ (dist(i) = dist(j) /\ i <= j)

\* "Build volumes dict for all cauldrons in route"
PiggybackVolumes(assignment, cauldrons_visited, best_pickup) ==
    [cid \in Range(cauldrons_visited) |->
        IF cid = best_pickup.cauldron_id THEN best_pickup.volume_to_collect
        ELSE IF assignment.category = "High Rate" THEN 50
        ELSE 30]

\* the piggybacked pickup left in remaining_pickups
RemoveAt_kept(s, i) == s

\* remaining_pickups.remove(best_pickup)
RemoveAt(s, i) == SubSeq(s, 1, i - 1) \o SubSeq(s, i + 1, Len(s))

\* the for loop of the packing loop: the pickups selected for a new witch,
\* first fit in list order
RECURSIVE SelectPickups(_, _, _)
SelectPickups(remaining_pickups, selected, total_volume) ==
    IF remaining_pickups = <<>> THEN selected
    ELSE LET pickup == Head(remaining_pickups)
         IN IF total_volume + pickup.volume_to_collect <= WITCH_CAPACITY
            THEN SelectPickups(Tail(remaining_pickups), Append(selected, pickup),
                               total_volume + pickup.volume_to_collect)
            ELSE SelectPickups(Tail(remaining_pickups), selected, total_volume)

\* "Ensure all selected cauldrons are in route - rebuild if necessary"; the
\* same test, on cauldrons_visited, formats the plan
CompleteRoute(route, cauldrons) ==
    LET route_cauldrons == SelectSeq(route, LAMBDA n : n # "market")
        missing_cauldrons == SelectSeq(cauldrons,
                                       LAMBDA c : c \notin Range(route_cauldrons))
    IN IF missing_cauldrons # <<>> \/ Len(route) <= 1
       THEN <<"market">> \o cauldrons \o <<"market">>
       ELSE route

\* the formatted assignment of the returned plan
FormatRoute(route, cauldrons_visited) ==
    LET route_cauldrons == SelectSeq(route, LAMBDA n : n # "market")
        missing_cauldrons == SelectSeq(cauldrons_visited,
                                       LAMBDA c : c \notin Range(route_cauldrons))
    IN IF (Len(route) <= 1 \/ missing_cauldrons # <<>> \/ route_cauldrons = <<>>)
          /\ cauldrons_visited # <<>>
       THEN <<"market">> \o cauldrons_visited \o <<"market">>
       ELSE route

FormatAssignment(a) ==
    [a EXCEPT !.route = FormatRoute(a.route, a.cauldrons_visited),
              !.volume_collected = a.total_brew_collected]

\* the dict returned when reference data or forecasts are missing
EmptyPlan ==
    [date |-> "date", couriers_needed |-> 0, assignments |-> <<>>,
     total_distance_km |-> 0]

\* the dict returned at the end
FinalPlan(assignments, remaining_pickups) ==
    [date |-> "date",
     couriers_needed |-> Len(assignments),
     assignments |-> [i \in 1..Len(assignments) |-> FormatAssignment(assignments[i])],
     unassigned_pickups |-> Len(remaining_pickups),
     total_distance_km |-> SumSeq([i \in 1..Len(assignments) |->
                                        assignments[i].distance_km])]

(***************************************************************************)
(* Inputs of the routing calls                                             *)
(***************************************************************************)
\* every site has one place on the equator
SiteLon(s) == Rank(s) - 1

SiteAttrs(s) == Attrs(0, SiteLon(s))

\* the ids given to add_node; "c3" is never a node of these graphs
NodeIds == {"market", "c1", "c2"}

\* the sites of the routing calls
RouteSites == NodeIds \cup {"c3"}

CauldronIds == RouteSites \ {"market"}

TravelTimes == {1, 5}

\* the cauldron list of build_graph: a sub-list of c1, c2
CauldronRecord(id) ==
    [id |-> id, latitude |-> 0, longitude |-> SiteLon(id), max_volume |-> 100]

CauldronLists ==
    {<<>>, <<CauldronRecord("c1")>>, <<CauldronRecord("c2")>>,
     <<CauldronRecord("c1"), CauldronRecord("c2")>>}

MarketRecord == [latitude |-> 0, longitude |-> SiteLon("market")]

\* the edges a feed is made of; the last pair repeats the first one reversed
FeedPairs == {<<"market", "c1">>, <<"market", "c2">>, <<"c1", "c2">>,
              <<"c1", "market">>}

FeedEdges ==
    {[from |-> p[1], to |-> p[2], travel_time_minutes |-> t, distance_km |-> None] :
        p \in FeedPairs, t \in TravelTimes}

SeqsUpTo(S, n) == UNION {[1..k -> S] : k \in 0..n}

Feeds == SeqsUpTo(FeedEdges, MaxFeed)

\* cauldrons_to_visit: lists of distinct cauldron ids
VisitLists ==
    {v \in SeqsUpTo(CauldronIds, MaxVisit) :
        \A i \in 1..Len(v), j \in 1..Len(v) : v[i] = v[j] => i = j}

Capacities == {0, 60, 100}

\* cauldron_volumes of optimize_courier_route; c3 has no entry in the second
VolumeMaps ==
    {[c \in CauldronIds |-> 40],
     [c \in {"c1", "c2"} |-> IF c = "c1" THEN 60 ELSE 50],
     [c \in CauldronIds |-> IF c = "c1" THEN 0 ELSE 120]}

EdgeCount(g) == Cardinality({<<f, t>> \in SiteIds \X SiteIds :
                                f \in DOMAIN g.edges /\ t \in DOMAIN g.edges[f]})

\* the last call made and what it returned
NoCall ==
    [op |-> "none", start |-> "", end |-> "", visit |-> <<>>, capacity |-> 0,
     volumes |-> EmptyMap, route |-> <<>>, time |-> 0, distance |-> 0,
     collected |-> 0, collectable |-> <<>>, raised |-> FALSE]

\* the scheduler's variables while no run is modelled
EnvIdle ==
    [cauldrons |-> <<>>, readings |-> <<>>, couriers |-> <<>>, market |-> EmptyMap,
     network |-> <<>>, history_empty |-> TRUE, hours_to_end_of_date |-> 0]

SchedStart ==
    [pc |-> "start", cauldrons |-> <<>>, couriers |-> <<>>, market |-> EmptyMap,
     forecasts |-> <<>>, high_rate_cauldrons |-> <<>>, low_rate_cauldrons |-> <<>>,
     low_rate_pickups |-> <<>>, assignments |-> <<>>, courier_index |-> 0,
     remaining_pickups |-> <<>>, k |-> 0, plan |-> EmptyMap]

SchedIdle == [SchedStart EXCEPT !.pc = "idle"]

\* no call of forecast_levels, no series given to the rate estimation
NoForecast == [op |-> "none"]

NoSeries == [op |-> "none"]

\* the servers while none is modelled
NotStarted == [pc |-> "off"]

IoIdle ==
    /\ fcst = NoForecast
    /\ slp = NoSeries
    /\ tcp = NotStarted
    /\ app = NotStarted

(***************************************************************************)
(* Calls on a Graph                                                        *)
(***************************************************************************)
CallAddNode(n, a) ==
    /\ result = NoCall
    /\ graph' = add_node(graph, n, a)
    /\ built' = "calls"
    /\ result' = NoCall
    /\ UNCHANGED <<schedVars, ioVars>>

\* a call of add_edge that raises has already created the adjacency dict of
\* from_node
CallAddEdge(f, t, time, d) ==
    /\ result = NoCall
    /\ IF add_edge_raises(graph, f, t, d)
       THEN /\ graph' = [graph EXCEPT !.edges =
                            IF f \in DOMAIN graph.edges THEN graph.edges
                            ELSE Put(graph.edges, f, EmptyMap)]
            /\ result' = [NoCall EXCEPT !.op = "add_edge", !.raised = TRUE]
       ELSE /\ graph' = add_edge(graph, f, t, time, d)
            /\ result' = NoCall
    /\ EdgeCount(graph') <= MaxEdges
    /\ built' = "calls"
    /\ UNCHANGED <<schedVars, ioVars>>

CallBuildGraph(network_data, cauldrons) ==
    /\ result = NoCall
    /\ built = "new"
    /\ graph' = build_graph(network_data, cauldrons, MarketRecord)
    /\ built' = "build_graph"
    /\ result' = NoCall
    /\ UNCHANGED <<schedVars, ioVars>>

CallDijkstra(start, end) ==
    /\ result = NoCall
    /\ LET r == dijkstra(graph, start, end)
       IN result' = [NoCall EXCEPT !.op = "dijkstra", !.start = start, !.end = end,
                                   !.route = r.path, !.time = r.time,
                                   !.distance = r.distance]
    /\ UNCHANGED <<graph, built, schedVars, ioVars>>

CallOptimizeRoute(visit, start, end) ==
    /\ result = NoCall
    /\ \E r \in optimize_route(graph, visit, start, end) :
          result' = [NoCall EXCEPT !.op = "optimize_route", !.start = start,
                                   !.end = end, !.visit = visit,
                                   !.route = r.route, !.time = r.time,
                                   !.distance = r.distance]
    /\ UNCHANGED <<graph, built, schedVars, ioVars>>

CallOptimizeCourierRoute(visit, capacity, volumes) ==
    /\ result = NoCall
    /\ \E r \in optimize_courier_route(graph, visit, capacity, volumes) :
          result' = [NoCall EXCEPT !.op = "optimize_courier_route",
                                   !.start = "market", !.end = "market",
                                   !.visit = visit, !.capacity = capacity,
                                   !.volumes = volumes,
                                   !.route = r.route, !.time = r.time,
                                   !.distance = r.distance,
                                   !.collected = r.collected_volume,
                                   !.collectable = r.collectable]
    /\ UNCHANGED <<graph, built, schedVars, ioVars>>

\* the caller takes the returned value; the next call can be made
Return ==
    /\ result # NoCall
    /\ result' = NoCall
    /\ UNCHANGED <<graph, built, schedVars, ioVars>>

GraphInit ==
    /\ graph = NewGraph
    /\ built = "new"
    /\ result = NoCall
    /\ env = EnvIdle
    /\ sched = SchedIdle
    /\ IoIdle

(***************************************************************************)
(* GraphSpec: a Graph built by add_node and add_edge calls, or by          *)
(* build_graph, and queried with dijkstra                                  *)
(***************************************************************************)
GraphNext ==
    \/ /\ result = NoCall /\ built # "build_graph"
       /\ \E n \in NodeIds, a \in {NoAttrs} : CallAddNode(n, a)
    \/ /\ result = NoCall /\ built # "build_graph"
       /\ \E n \in NodeIds : CallAddNode(n, SiteAttrs(n))
    \/ /\ result = NoCall /\ built # "build_graph"
       /\ \E f \in NodeIds, t \in NodeIds, time \in TravelTimes :
             f # t /\ CallAddEdge(f, t, time, None)
    \/ /\ result = NoCall /\ built = "new"
       /\ \E nd \in Feeds, cs \in CauldronLists : CallBuildGraph(nd, cs)
    \/ /\ result = NoCall
       /\ \E start \in RouteSites, end \in RouteSites : CallDijkstra(start, end)
    \/ Return

GraphSpec == GraphInit /\ [][GraphNext]_vars

(***************************************************************************)
(* RouteSpec: a graph from build_graph, nodes of it possibly re-added      *)
(* without coordinates, and the route optimizer called on it               *)
(***************************************************************************)
RouteNext ==
    \/ /\ result = NoCall /\ built = "new"
       /\ \E nd \in Feeds :
             CallBuildGraph(nd, <<CauldronRecord("c1"), CauldronRecord("c2")>>)
    \/ /\ result = NoCall /\ built # "new"
       /\ \E n \in NodeIds : n \in DOMAIN graph.nodes /\ CallAddNode(n, NoAttrs)
    \/ /\ result = NoCall /\ built # "new"
       /\ \E visit \in VisitLists, start \in {"market", "c1"}, end \in {"market", "c1"} :
             CallOptimizeRoute(visit, start, end)
    \/ /\ result = NoCall /\ built # "new"
       /\ \E visit \in VisitLists, capacity \in Capacities, volumes \in VolumeMaps :
             CallOptimizeCourierRoute(visit, capacity, volumes)
    \/ Return

RouteSpec == GraphInit /\ [][RouteNext]_vars

(***************************************************************************)
(* Properties of the route optimizer and of the graph                      *)
(***************************************************************************)
Last(s) == s[Len(s)]

Count(s, x) == Cardinality({i \in 1..Len(s) : s[i] = x})

\* the sites a walk along directed edges reaches from the sites of S
RECURSIVE ReachFrom(_, _)
ReachFrom(g, S) ==
    LET T == S \cup {t \in SiteIds :
                        \E f \in S : f \in DOMAIN g.edges /\ t \in DOMAIN g.edges[f]}
    IN IF T = S THEN S ELSE ReachFrom(g, T)

PathExists(g, a, b) == b \in ReachFrom(g, {a})

HasEdge(g, a, b) == a \in DOMAIN g.edges /\ b \in DOMAIN g.edges[a]

\* a fully connected graph: an edge joins every two distinct nodes, each way
FullyConnected(g) ==
    \A a \in DOMAIN g.nodes, b \in DOMAIN g.nodes : a # b => HasEdge(g, a, b)

\* no detour is as short as the edge itself
StrictTriangle(g) ==
    \A a \in DOMAIN g.nodes, b \in DOMAIN g.nodes, c \in DOMAIN g.nodes :
        (a # b /\ b # c /\ a # c) =>
            g.edges[a][b].travel_time
                < g.edges[a][c].travel_time + g.edges[c][b].travel_time

RouteCall == result.op = "optimize_route" /\ result.visit # <<>>

\* C6 (as claimed): for any graph, any start and end site and any non-empty
\* must-visit list, the route of optimize_route has start as its first
\* element and end as its last element.
C6_RouteStartsAndEnds ==
    RouteCall =>
        /\ result.route # <<>>
        /\ Head(result.route) = result.start
        /\ Last(result.route) = result.end

\* the must-visit sites are nodes of a fully connected graph, and neither
\* endpoint is one of them
C7_Case ==
    /\ RouteCall
    /\ FullyConnected(graph)
    /\ Range(result.visit) \subseteq DOMAIN graph.nodes
    /\ result.start \notin Range(result.visit)
    /\ result.end \notin Range(result.visit)

\* C7 (as claimed): on a fully connected graph every requested site occurs
\* exactly once in the route of optimize_route, also when a shortest-path leg
\* to one requested site passes through another requested site.
C7_ExactlyOnce ==
    C7_Case => \A c \in Range(result.visit) : Count(result.route, c) = 1

\* C7 (amended): on a fully connected graph every requested site occurs at
\* least once in the route of optimize_route; it occurs exactly once when no
\* detour is as short as the direct edge (no leg passes through another
\* site) and the site is not the start or the end site.
C7_AtLeastOnce ==
    /\ (RouteCall /\ FullyConnected(graph)
            /\ Range(result.visit) \subseteq DOMAIN graph.nodes)
        => \A c \in Range(result.visit) : Count(result.route, c) >= 1
    /\ (C7_Case /\ StrictTriangle(graph))
        => \A c \in Range(result.visit) : Count(result.route, c) = 1

\* a leg of the route passed through a requested site: the site is in the
\* route twice, every requested site is there
C7_Witness ==
    /\ C7_Case
    /\ Len(result.visit) = 2
    /\ \E c \in Range(result.visit) : Count(result.route, c) = 2
    /\ \A c \in Range(result.visit) : Count(result.route, c) >= 1

\* C8: dijkstra returns the unreachable result (empty path, infinite time,
\* infinite distance) whenever start is no node, end is no node, or no
\* directed path leads from start to end.
C8_Unreachable ==
    (/\ result.op = "dijkstra"
     /\ \/ result.start \notin DOMAIN graph.nodes
        \/ result.end \notin DOMAIN graph.nodes
        \/ ~PathExists(graph, result.start, result.end))
    => /\ result.route = <<>>
       /\ result.time = Inf
       /\ result.distance = Inf

\* both nodes exist and an edge leads from end to start, none from start to
\* end: the query came back unreachable
C8_Witness ==
    /\ result.op = "dijkstra"
    /\ result.start \in DOMAIN graph.nodes
    /\ result.end \in DOMAIN graph.nodes
    /\ HasEdge(graph, result.end, result.start)
    /\ ~PathExists(graph, result.start, result.end)
    /\ result.route = <<>>

PrefixVolume(visit, volumes, k) ==
    SumSeq([i \in 1..k |-> VolumeOf(volumes, visit[i])])

\* the longest prefix whose cumulative volume stays at most the capacity
LongestPrefix(visit, capacity, volumes) ==
    LET fits == {k \in 0..Len(visit) :
                    \A j \in 1..k : PrefixVolume(visit, volumes, j) <= capacity}
        k == CHOOSE n \in fits : \A m \in fits : m <= n
    IN SubSeq(visit, 1, k)

\* C10: optimize_courier_route collects exactly the longest prefix of the
\* input list whose cumulative volume stays at most the capacity; the
\* returned volume is the sum over that prefix and at most the capacity.
C10_LongestPrefix ==
    result.op = "optimize_courier_route" =>
        /\ result.collectable
             = LongestPrefix(result.visit, result.capacity, result.volumes)
        /\ result.collected
             = PrefixVolume(result.visit, result.volumes, Len(result.collectable))
        /\ result.collected <= result.capacity

\* the second site overflowed and the third, which would have fitted, was not
\* taken
C10_Witness ==
    /\ result.op = "optimize_courier_route"
    /\ Len(result.visit) = 3
    /\ Len(result.collectable) = 1
    /\ result.collected > 0
    /\ result.collected + VolumeOf(result.volumes, result.visit[3]) <= result.capacity
    /\ result.visit[1] \in Range(result.route)
    /\ result.visit[3] \notin Range(result.route)

(***************************************************************************)
(* create_daily_schedule, step by step                                     *)
(*                                                                         *)
(* env is what the external services hold when the run starts; the run     *)
(* reads it once (fetch_cauldrons, fetch_couriers, fetch_market,           *)
(* fetch_network_data, and the history behind get_forecast).  A fetch that *)
(* fails returns the empty list or dict, so an outage is an env with the   *)
(* empty value.                                                            *)
(***************************************************************************)
\* (max_volume, current level, brew rate) of a cauldron
Profile(max_volume, level, rate) ==
    [max_volume |-> max_volume, level |-> level, rate |-> rate]

Profiles ==
    {Profile(100, 90, 5000),    \* high rate, 80 L to collect: 70 + 10
     Profile(150, 130, 5000),   \* high rate, 120 L to collect: 70 + 30
     Profile(100, 0, 5000),     \* high rate, nothing to collect yet
     Profile(100, 50, 2000),    \* low rate, reaches 80% in 15 h: 80 L
     Profile(100, 10, 0),       \* low rate, no need
     Profile(150, 130, 0),      \* low rate, above 80%: 120 L, more than a witch carries
     Profile(50, 45, 0)}        \* low rate, above 80%: 40 L

FeedEdge(f, t, time) ==
    [from |-> f, to |-> t, travel_time_minutes |-> time, distance_km |-> None]

\* the network service: down (no edges), or some roads
SchedFeeds ==
    {<<>>,
     <<FeedEdge("market", "c1", 1), FeedEdge("c1", "c2", 1),
       FeedEdge("market", "c2", 5), FeedEdge("c2", "c3", 5)>>}

Courier(k) == [courier_id |-> <<"courier_", k>>, name |-> <<"courier", k>>]

CourierLists == {<<>>, <<Courier(1), Courier(2)>>}

CauldronInfo(i, max_volume) ==
    [id |-> SiteOrder[i], latitude |-> 0, longitude |-> SiteLon(SiteOrder[i]),
     max_volume |-> max_volume]

\* datetime.now() in hours before target_date_end, 23:59:59 of the date the
\* schedule is asked for: a morning of that day, a call two days ahead
HoursToEndOfDate == {10, 48}

\* cauldrons c1, c2, ... with the profiles ps
Env(ps, couriers, market, network, history_empty, hours_to_end) ==
    [cauldrons |-> [i \in 1..Len(ps) |-> CauldronInfo(i, ps[i].max_volume)],
     readings |-> [i \in 1..Len(ps) |-> [level |-> ps[i].level, rate |-> ps[i].rate]],
     couriers |-> couriers,
     market |-> market,
     network |-> network,
     history_empty |-> history_empty,
     hours_to_end_of_date |-> hours_to_end]

Envs ==
    {Env(ps, cr, m, nd, h, w) :
        ps \in SeqsUpTo(Profiles, MaxCauldrons),
        cr \in CourierLists, m \in {MarketRecord, EmptyMap},
        nd \in SchedFeeds, h \in BOOLEAN, w \in HoursToEndOfDate}

\* lines 239-265: the fetches, the test for missing reference data,
\* build_graph (which reads market['latitude'])
FetchData ==
    /\ sched.pc = "start"
    /\ LET fetched == [sched EXCEPT !.cauldrons = env.cauldrons,
                                    !.couriers = env.couriers,
                                    !.market = env.market]
       IN IF NoReferenceData(env.cauldrons, env.market)
          THEN /\ sched' = [fetched EXCEPT !.pc = "done", !.plan = EmptyPlan]
               /\ UNCHANGED <<graph, built>>
          ELSE IF env.market = EmptyMap
          THEN /\ sched' = [fetched EXCEPT !.pc = "raised"]
               /\ UNCHANGED <<graph, built>>
          ELSE /\ sched' = [fetched EXCEPT !.pc = "forecast"]
               /\ graph' = build_graph(env.network, env.cauldrons, env.market)
               /\ built' = "build_graph"
    /\ UNCHANGED <<result, env, ioVars>>

\* lines 256-278: get_forecast, the test for no forecasts, categorize_cauldrons
Forecast ==
    /\ sched.pc = "forecast"
    /\ LET forecasts == get_forecast(env, sched.cauldrons)
           cat == categorize_cauldrons(forecasts, sched.cauldrons)
       IN IF forecasts = <<>>
          THEN sched' = [sched EXCEPT !.pc = "done", !.plan = EmptyPlan]
          ELSE sched' = [sched EXCEPT !.forecasts = forecasts,
                                      !.high_rate_cauldrons = cat.high,
                                      !.low_rate_cauldrons = cat.low,
                                      !.assignments = <<>>,
                                      !.courier_index = 0,
                                      !.k = 1,
                                      !.pc = IF cat.high = <<>> THEN "low_rate"
                                             ELSE "high_rate"]
    /\ UNCHANGED <<graph, built, result, env, ioVars>>

\* lines 283-378: one pass of the loop over the high-rate cauldrons
HighRateStep ==
    /\ sched.pc = "high_rate"
    /\ LET cauldron == sched.high_rate_cauldrons[sched.k]
           cauldron_id == cauldron.cauldron_id
           volume_to_collect == HighRateVolume(cauldron)
           first_witch_volume == Min2(70, volume_to_collect)
           second_witch_volume == Min2(30, volume_to_collect - first_witch_volume)
           index1 == IF first_witch_volume > 0 THEN sched.courier_index + 1
                     ELSE sched.courier_index
           index2 == IF second_witch_volume > 0 THEN index1 + 1 ELSE index1
       IN \E a1 \in (IF first_witch_volume > 0
                     THEN HighRateTrip(graph, sched.couriers, sched.assignments,
                                       sched.courier_index, cauldron_id,
                                       first_witch_volume)
                     ELSE {sched.assignments}) :
          \E a2 \in (IF second_witch_volume > 0
                     THEN HighRateTrip(graph, sched.couriers, a1, index1,
                                       cauldron_id, second_witch_volume)
                     ELSE {a1}) :
             sched' = [sched EXCEPT !.assignments = a2,
                                    !.courier_index = index2,
                                    !.k = sched.k + 1,
                                    !.pc = IF sched.k + 1 > Len(sched.high_rate_cauldrons)
                                           THEN "low_rate" ELSE "high_rate"]
    /\ UNCHANGED <<graph, built, result, env, ioVars>>

\* lines 389-394: identify_low_rate_pickups
IdentifyLowRate ==
    /\ sched.pc = "low_rate"
    /\ LET low_rate_pickups == identify_low_rate_pickups(sched.low_rate_cauldrons)
       IN sched' = [sched EXCEPT !.low_rate_pickups = low_rate_pickups,
                                 !.remaining_pickups = low_rate_pickups,
                                 !.k = 1,
                                 !.pc = IF sched.assignments = <<>> THEN "pack"
                                        ELSE "piggyback"]
    /\ UNCHANGED <<graph, built, result, env, ioVars>>

\* lines 397-457: one pass of the loop over the existing assignments
PiggybackStep ==
    /\ sched.pc = "piggyback"
    /\ LET assignment == sched.assignments[sched.k]
           current_volume == assignment.total_brew_collected
           spare_capacity == WITCH_CAPACITY - current_volume
           best == IF spare_capacity > 10
                   THEN BestPickup(graph, assignment, sched.remaining_pickups,
                                   spare_capacity)
                   ELSE 0
           next == [sched EXCEPT !.k = sched.k + 1,
                                 !.pc = IF sched.k + 1 > Len(sched.assignments)
                                        THEN "pack" ELSE "piggyback"]
       IN IF best = 0 THEN sched' = next
          ELSE LET best_pickup == sched.remaining_pickups[best]
                   cauldrons_visited == Append(assignment.cauldrons_visited,
                                               best_pickup.cauldron_id)
                   volumes == PiggybackVolumes(assignment, cauldrons_visited,
                                               best_pickup)
               IN \E r \in optimize_witch_route(graph, cauldrons_visited, volumes) :
                     sched' = [next EXCEPT
                        !.assignments[sched.k] =
                            [assignment EXCEPT
                                !.cauldrons_visited = cauldrons_visited,
                                !.route = r.route,
                                !.travel_time_minutes = r.time,
                                !.distance_km = r.distance,
                                !.total_brew_collected = r.total_volume,
                                !.volume_collected = r.total_volume,
                                !.total_time_minutes =
                                    r.time + Len(cauldrons_visited) * 15],
                        !.remaining_pickups = RemoveAt(sched.remaining_pickups, best)]
    /\ UNCHANGED <<graph, built, result, env, ioVars>>

\* a pass of the loop that opens a witch and removes no pickup
PackStep_keeps ==
    /\ sched.pc = "pack"
    /\ sched' = [sched EXCEPT !.pc = IF sched.remaining_pickups = <<>>
                                     THEN "format" ELSE "pack",
                              !.courier_index = (sched.courier_index + 1) % 2]
    /\ UNCHANGED <<graph, built, result, env, ioVars>>

\* lines 460-522: one pass of the loop that opens new witches
PackStep ==
    /\ sched.pc = "pack"
    /\ LET selected == SelectPickups(sched.remaining_pickups, <<>>, 0)
           selected_cauldrons == [i \in 1..Len(selected) |-> selected[i].cauldron_id]
           selected_volumes == [c \in Range(selected_cauldrons) |->
                                   (CHOOSE p \in Range(selected) :
                                        p.cauldron_id = c).volume_to_collect]
       IN IF sched.remaining_pickups = <<>> \/ selected_cauldrons = <<>>
          THEN sched' = [sched EXCEPT !.pc = "format"]
          ELSE \E r \in optimize_witch_route(graph, selected_cauldrons,
                                             selected_volumes) :
                  sched' = [sched EXCEPT
                     !.assignments =
                         Append(sched.assignments,
                                Assignment(sched.couriers, sched.courier_index,
                                           CompleteRoute(r.route, selected_cauldrons),
                                           selected_cauldrons, r.time,
                                           Len(selected_cauldrons) * 15,
                                           r.total_volume, r.distance,
                                           "Low Rate (80%)")),
                     !.remaining_pickups =
                         SelectSeq(sched.remaining_pickups,
                                   LAMBDA p : p.cauldron_id
                                                \notin Range(selected_cauldrons)),
                     !.courier_index = sched.courier_index + 1]
    /\ UNCHANGED <<graph, built, result, env, ioVars>>

\* lines 524-571: the plan is formatted and returned
ReturnPlan ==
    /\ sched.pc = "format"
    /\ sched' = [sched EXCEPT !.pc = "done",
                              !.plan = FinalPlan(sched.assignments,
                                                 sched.remaining_pickups)]
    /\ UNCHANGED <<graph, built, result, env, ioVars>>

Init ==
    /\ graph = NewGraph
    /\ built = "new"
    /\ result = NoCall
    /\ env \in Envs
    /\ sched = SchedStart
    /\ IoIdle

Next ==
    \/ FetchData
    \/ Forecast
    \/ HighRateStep
    \/ IdentifyLowRate
    \/ PiggybackStep
    \/ PackStep
    \/ ReturnPlan

Spec == Init /\ [][Next]_vars

(***************************************************************************)
(* Properties of the plans of create_daily_schedule                        *)
(***************************************************************************)
Returned == sched.pc = "done"

\* the run went past the tests for missing data and returned the plan of
\* lines 565-571
FullPlan == Returned /\ "unassigned_pickups" \in DOMAIN sched.plan

PlanAssignments == Range(sched.plan.assignments)

\* the number of assignments of the plan that visit a cauldron
Visits(cauldron_id) ==
    Cardinality({i \in 1..Len(sched.plan.assignments) :
                    cauldron_id \in Range(sched.plan.assignments[i].cauldrons_visited)})

\* the pickup criterion: at or above 80% now, or there within 24 hours
MeetsPickupCriterion(c) ==
    \/ c.current_percentage >= 80
    \/ /\ c.brew_rate > 0
       /\ (Pct80(c.max_volume) - c.current_level) * RateScale <= 24 * c.brew_rate

\* C1 (as claimed): in every returned plan each assignment's volume_collected
\* is at most the courier capacity of 100 L, also after a low-rate pickup has
\* been piggybacked onto an existing trip.
C1_VolumeWithinCapacity ==
    Returned => \A a \in PlanAssignments : a.volume_collected <= WITCH_CAPACITY

\* three cauldrons, max_volume 100 each, levels 90, 50, 10 and brew rates
\* 5, 2, 0 L/h
Scenario ==
    /\ Len(env.cauldrons) = 3
    /\ \A i \in 1..3 : env.cauldrons[i].max_volume = 100
    /\ env.readings = <<[level |-> 90, rate |-> 5000], [level |-> 50, rate |-> 2000],
                        [level |-> 10, rate |-> 0]>>
    /\ env.market # EmptyMap
    /\ ~env.history_empty

\* C2 (as claimed): in the scenario the plan visits cauldron 1 and cauldron 2,
\* never cauldron 3, and every assignment has volume_collected at most 100 L.
C2_ScenarioPlan ==
    (Returned /\ Scenario) =>
        /\ Visits("c1") >= 1
        /\ Visits("c2") >= 1
        /\ Visits("c3") = 0
        /\ \A a \in PlanAssignments : a.volume_collected <= 100

MissingData ==
    env.cauldrons = <<>> \/ env.market = EmptyMap \/ env.history_empty

\* C4: when the cauldron reference data, the market reference data or the
\* forecast list is empty, create_daily_schedule does not raise and returns
\* the empty plan: couriers_needed = 0, assignments = [].
C4_EmptyPlanOnMissingData ==
    MissingData =>
        /\ sched.pc \in {"start", "forecast", "done"}
        /\ Returned => /\ sched.plan.couriers_needed = 0
                       /\ sched.plan.assignments = <<>>

\* the market service was down, the other services were not: the empty plan
\* came back
C4_Witness ==
    /\ Returned
    /\ env.market = EmptyMap
    /\ Len(env.cauldrons) = MaxCauldrons
    /\ ~env.history_empty
    /\ sched.plan.couriers_needed = 0
    /\ sched.plan.assignments = <<>>

NoPickupNeeded ==
    /\ sched.forecasts # <<>>
    /\ \A c \in Range(sched.high_rate_cauldrons) : c.current_level <= 0
    /\ sched.low_rate_pickups = <<>>

\* C5: when no high-rate cauldron has a positive volume to collect and
\* identify_low_rate_pickups returns no need, the plan has couriers_needed = 0
\* and no assignment.
C5_NoNeedNoCourier ==
    (Returned /\ NoPickupNeeded) =>
        /\ sched.plan.couriers_needed = 0
        /\ sched.plan.assignments = <<>>

\* a run with an empty high-rate cauldron and a low-rate cauldron that needs
\* nothing returned the plan without couriers
C5_Witness ==
    /\ FullPlan
    /\ NoPickupNeeded
    /\ sched.high_rate_cauldrons # <<>>
    /\ sched.low_rate_cauldrons # <<>>
    /\ sched.plan.couriers_needed = 0

(***************************************************************************)
(* forecasting.py: forecast_levels, for one cauldron                       *)
(*                                                                         *)
(* Predicted levels are thousandths of a litre, current_time is 0 and a    *)
(* time is a number of seconds after it, rounded down.                     *)
(***************************************************************************)
\* the longest forecast horizon drawn, hours
MaxHorizon == 3

\* brew_rate > 1e-10: no rate of the model lies between 0 and 1e-10 L/h
BrewRateEpsilon == 0

SecondsPerHour == 3600

\* the level of line 153 without the cap of line 154
PredictedLevel_uncapped(current_level, max_volume, brew_rate, hour) ==
    current_level * RateScale + brew_rate * hour

\* predicted_level = min(current_level + brew_rate * hour, max_volume)
PredictedLevel(current_level, max_volume, brew_rate, hour) ==
    Min2(current_level * RateScale + brew_rate * hour, max_volume * RateScale)

\* forecast_points: one point per hour 0..forecast_hours; the percentage is
\* in thousandths of a percent, rounded down
ForecastPoints(current_level, max_volume, brew_rate, forecast_hours) ==
    [i \in 1..(forecast_hours + 1) |->
        LET predicted_level == PredictedLevel(current_level, max_volume, brew_rate, i - 1)
        IN [timestamp |-> (i - 1) * SecondsPerHour,
            level |-> predicted_level,
            percentage |-> (predicted_level * 100) \div max_volume]]

\* time_to_80 as the branch of brew_rate > 1e-10 alone leaves it
TimeTo80_rate_only(current_level, max_volume, brew_rate) ==
    IF brew_rate > BrewRateEpsilon
    THEN LET remaining_to_80 == Pct80(max_volume) - current_level
         IN IF remaining_to_80 > 0
            THEN (remaining_to_80 * RateScale * SecondsPerHour) \div brew_rate
            ELSE 0
    ELSE None

\* time_to_80: lines 163-198
TimeTo80(current_level, max_volume, brew_rate) ==
    LET current_percentage_x_max == current_level * 100
        time_to_80 ==
            IF brew_rate > BrewRateEpsilon
            THEN LET remaining_to_80 == Pct80(max_volume) - current_level
                 IN IF remaining_to_80 > 0
                    THEN (remaining_to_80 * RateScale * SecondsPerHour) \div brew_rate
                    ELSE 0
            ELSE None
    IN IF time_to_80 = None /\ max_volume > 0
                            /\ current_percentage_x_max >= 80 * max_volume
       THEN 0
       ELSE time_to_80

\* time_to_100: lines 164-190
TimeTo100(current_level, max_volume, brew_rate) ==
    IF brew_rate > BrewRateEpsilon
    THEN LET remaining_to_100 == max_volume - current_level
         IN IF remaining_to_100 > 0
            THEN (remaining_to_100 * RateScale * SecondsPerHour) \div brew_rate
            ELSE 0
    ELSE None

\* the forecast of one cauldron
forecast_levels(current_level, max_volume, brew_rate, forecast_hours) ==
    LET time_to_100 == TimeTo100(current_level, max_volume, brew_rate)
    IN [current_level |-> current_level,
        max_volume |-> max_volume,
        brew_rate_liters_per_hour |-> brew_rate,
        forecast_points |-> ForecastPoints(current_level, max_volume, brew_rate,
                                           forecast_hours),
        time_to_80_percent |-> TimeTo80(current_level, max_volume, brew_rate),
        time_to_100_percent |-> time_to_100,
        at_risk_12h |-> time_to_100 # None /\ time_to_100 < 12 * SecondsPerHour]

\* the cauldrons and histories drawn: max_volume, the last level of the
\* history, the brew rate calculate_brew_rate gets from it (never negative)
ForecastMaxVolumes == {50, 100}

ForecastLevels == {0, 30, 40, 79, 80, 90, 100, 120}

ForecastRates == {0, 1, 500, 5000, 20000}

CallForecastLevels(current_level, max_volume, brew_rate, forecast_hours) ==
    /\ fcst = NoForecast
    /\ fcst' = [op |-> "forecast_levels", forecast_hours |-> forecast_hours,
                forecast |-> forecast_levels(current_level, max_volume, brew_rate,
                                             forecast_hours)]
    /\ UNCHANGED <<graph, built, result, schedVars, slp, tcp, app>>

\* the caller takes the forecast
ReturnForecast ==
    /\ fcst # NoForecast
    /\ fcst' = NoForecast
    /\ UNCHANGED <<graph, built, result, schedVars, slp, tcp, app>>

ForecastNext ==
    \/ /\ fcst = NoForecast
       /\ \E current_level \in ForecastLevels, max_volume \in ForecastMaxVolumes,
             brew_rate \in ForecastRates, forecast_hours \in 0..MaxHorizon :
             CallForecastLevels(current_level, max_volume, brew_rate, forecast_hours)
    \/ ReturnForecast

ForecastSpec == GraphInit /\ [][ForecastNext]_vars

Forecasted == fcst.op = "forecast_levels"

\* C11: for max_volume > 0 and brew rate >= 0 the forecast points of hours
\* 0..horizon are non-decreasing in level and no level exceeds max_volume,
\* also when the current level already exceeds max_volume.
C11_MonotoneCapped ==
    Forecasted =>
        LET points == fcst.forecast.forecast_points
        IN /\ Len(points) = fcst.forecast_hours + 1
           /\ \A i \in 1..Len(points) :
                 points[i].level <= fcst.forecast.max_volume * RateScale
           /\ \A i \in 1..(Len(points) - 1) : points[i + 1].level >= points[i].level

\* a forecast that rises and then stays at max_volume, and one of a
\* cauldron already above max_volume
C11_Witness ==
    /\ Forecasted
    /\ LET points == fcst.forecast.forecast_points
       IN /\ Len(points) = MaxHorizon + 1
          /\ points[1].level < points[2].level
          /\ points[2].level < points[3].level
          /\ points[3].level = fcst.forecast.max_volume * RateScale
          /\ points[4].level = fcst.forecast.max_volume * RateScale

MaxReadings == 5

SecondsPerReading == 60

ReadingLevels == 0..2

\* is_non_decreasing = df[cauldron_name].diff() >= 0: the diff of the first
\* row is NaN, and NaN >= 0 is False
IsNonDecreasing(levels) ==
    [i \in 1..Len(levels) |-> i > 1 /\ levels[i] - levels[i - 1] >= 0]

\* blocks = (is_non_decreasing != is_non_decreasing.shift()).cumsum(): the
\* shifted first row is NaN, which differs from every value
Blocks(is_non_decreasing) ==
    [i \in 1..Len(is_non_decreasing) |->
        Cardinality({j \in 1..i :
                        j = 1 \/ is_non_decreasing[j] # is_non_decreasing[j - 1]})]

\* df[is_non_decreasing].groupby(blocks): the rows of each block that has
\* non-decreasing rows, in the order of the block ids
RECURSIVE SectionsFrom(_, _, _)
SectionsFrom(is_non_decreasing, blocks, b) ==
    IF b > Len(blocks) THEN <<>>
    ELSE LET rows == {i \in 1..Len(blocks) : blocks[i] = b /\ is_non_decreasing[i]}
         IN (IF rows = {} THEN <<>> ELSE <<rows>>)
                \o SectionsFrom(is_non_decreasing, blocks, b + 1)

MaxOf(S) == CHOOSE x \in S : \A y \in S : y <= x

RECURSIVE SumOver(_, _)
SumOver(S, f) ==
    IF S = {} THEN 0
    ELSE LET x == CHOOSE y \in S : TRUE IN f[x] + SumOver(S \ {x}, f)

\* the result of one section: LinearRegression on (seconds from the start
\* of the section, level)
SectionResult(levels, rows) ==
    LET n == Cardinality(rows)
        first_row == MinOf(rows)
        last_row == MaxOf(rows)
        x == [i \in rows |-> (i - first_row) * SecondsPerReading]
        y == [i \in rows |-> levels[i]]
        xy == [i \in rows |-> x[i] * y[i]]
        xx == [i \in rows |-> x[i] * x[i]]
    IN [first_row |-> first_row,
        last_row |-> last_row,
        slope_num |-> (n * SumOver(rows, xy) - SumOver(rows, x) * SumOver(rows, y)) * 60,
        slope_den |-> n * SumOver(rows, xx) - SumOver(rows, x) * SumOver(rows, x),
        section_duration_minutes |->
            ((last_row - first_row) * SecondsPerReading) \div 60]

\* all_section_results: a section needs more than one row
RECURSIVE SectionResults(_, _)
SectionResults(levels, sections) ==
    IF sections = <<>> THEN <<>>
    ELSE (IF Cardinality(Head(sections)) > 1
          THEN <<SectionResult(levels, Head(sections))>> ELSE <<>>)
            \o SectionResults(levels, Tail(sections))

\* the summary of the day; with no section result the frame of line 74 has
\* no column and the groupby of line 78 raises KeyError
calculate_daily_slopes(levels) ==
    LET is_non_decreasing == IsNonDecreasing(levels)
        blocks == Blocks(is_non_decreasing)
        all_section_results ==
            SectionResults(levels, SectionsFrom(is_non_decreasing, blocks, 1))
    IN IF all_section_results = <<>>
       THEN [raised |-> TRUE, sections |-> <<>>, section_count |-> 0,
             total_generation_minutes |-> 0,
             start_of_day_amount |-> None, end_of_day_amount |-> None]
       ELSE [raised |-> FALSE,
             sections |-> all_section_results,
             section_count |-> Len(all_section_results),
             total_generation_minutes |->
                 SumSeq([i \in 1..Len(all_section_results) |->
                            all_section_results[i].section_duration_minutes]),
             start_of_day_amount |-> levels[1],
             end_of_day_amount |-> levels[Len(levels)]]

\* the reading series drawn
ReadingSeries == UNION {[1..k -> ReadingLevels] : k \in 1..MaxReadings}

CallCalculateDailySlopes(levels) ==
    /\ slp = NoSeries
    /\ slp' = [op |-> "calculate_daily_slopes", levels |-> levels,
               summary |-> calculate_daily_slopes(levels)]
    /\ UNCHANGED <<graph, built, result, schedVars, fcst, tcp, app>>

\* the caller takes the summary
ReturnSlopes ==
    /\ slp # NoSeries
    /\ slp' = NoSeries
    /\ UNCHANGED <<graph, built, result, schedVars, fcst, tcp, app>>

SlopeNext ==
    \/ /\ slp = NoSeries
       /\ \E levels \in ReadingSeries : CallCalculateDailySlopes(levels)
    \/ ReturnSlopes

SlopeSpec == GraphInit /\ [][SlopeNext]_vars

Sloped == slp.op = "calculate_daily_slopes"

\* the positions of the readings that are lower than the reading before
Decreases(levels) == {i \in 2..Len(levels) : levels[i] < levels[i - 1]}

\* C13 (as claimed): a series of at least two readings without decreasing
\* step yields exactly one filling run, from the first reading of the series
\* to its last reading.
C13_SingleRun ==
    (Sloped /\ Len(slp.levels) >= 2 /\ Decreases(slp.levels) = {}) =>
        /\ ~slp.summary.raised
        /\ Len(slp.summary.sections) = 1
        /\ slp.summary.sections[1].first_row = 1
        /\ slp.summary.sections[1].last_row = Len(slp.levels)

\* C14 (as claimed): a series with exactly one decreasing step, at reading
\* k, with at least two readings before k and at least two from k onward,
\* yields exactly two filling runs: the readings before k, and the readings
\* from k onward.
C14_TwoRuns ==
    (Sloped /\ Cardinality(Decreases(slp.levels)) = 1) =>
        LET k == CHOOSE i \in Decreases(slp.levels) : TRUE
            n == Len(slp.levels)
        IN (k - 1 >= 2 /\ n - k + 1 >= 2) =>
              /\ ~slp.summary.raised
              /\ Len(slp.summary.sections) = 2
              /\ slp.summary.sections[1].first_row = 1
              /\ slp.summary.sections[1].last_row = k - 1
              /\ slp.summary.sections[2].first_row = k
              /\ slp.summary.sections[2].last_row = n

(***************************************************************************)
(* tcp_server.py: TCPServer.  A started server: the accept loop, one       *)
(* handler per connection, a caller of get_latest_data and a caller of     *)
(* stop().  Litres are tenths of a litre.  A `with` block of one lock is   *)
(* one step.                                                               *)
(***************************************************************************)
\* the packets all connections receive together
MaxPackets == 2

\* the connections clients open
Conns == {"k1", "k2"}

\* a field of a JSON object, a part of a comma-separated line: a number, a
\* value float() refuses, a key the object lacks
Num(n) == [t |-> "number", v |-> n]

Text == [t |-> "text", v |-> 0]

Missing == [t |-> "missing", v |-> 0]

\* a packet: whether its bytes decode as UTF-8, what json.loads makes of the
\* text ("invalid": JSONDecodeError, "object": a dict, "value": any other
\* JSON value), the two fields of a dict, the parts of message.split(',')
Packet(utf8, json, taken, reported, parts) ==
    [utf8 |-> utf8, json |-> json, taken_liters |-> taken,
     reported_liters |-> reported, parts |-> parts]

JsonObject(taken, reported) == Packet(TRUE, "object", taken, reported, <<>>)

Line(parts) == Packet(TRUE, "invalid", Missing, Missing, parts)

\* {"taken_liters": 12.5, "reported_liters": 10.0}
JsonReading == JsonObject(Num(125), Num(100))

\* "5.0,8.0"
SimpleReading == Line(<<Num(50), Num(80)>>)

Packets ==
    {JsonReading,
     JsonObject(Missing, Num(40)),                  \* {"reported_liters": 4.0}
     JsonObject(Text, Num(100)),                    \* {"taken_liters": "abc", ...}, {"taken_liters": null, ...}
     Packet(TRUE, "value", Missing, Missing, <<>>), \* 5, [1, 2], "abc", null
     SimpleReading,
     Line(<<Text, Num(80)>>),                       \* "abc,8.0"
     Line(<<Text>>),                                \* "hello", "1,2,3", a short binary record
     Packet(FALSE, "invalid", Missing, Missing, <<>>)}  \* bytes that are not UTF-8

\* float(x): ValueError for a text that is no number (TypeError for None)
FloatRaises(x) == x.t = "text"

\* float(parsed_data.get(key, 0))
FloatOf(x) == IF x.t = "number" THEN x.v ELSE 0

\* taken + reported in the place of taken - reported
calculate_discrepancy_sum(taken, reported) == taken + reported

calculate_discrepancy(taken, reported) == taken - reported

\* datetime.now() of every reading: the time of a reading is not followed
Now == 0

\* self.latest_data of __init__
InitialData ==
    [taken_liters |-> 0, reported_liters |-> 0, discrepancy |-> 0,
     timestamp |-> None, connected |-> FALSE]

\* the dict process_client_data stores
Reading(taken_liters, reported_liters, now) ==
    [taken_liters |-> taken_liters, reported_liters |-> reported_liters,
     discrepancy |-> calculate_discrepancy(taken_liters, reported_liters),
     timestamp |-> now, connected |-> TRUE]

\* the simple format with the ValueError of float() answered by a reading
\* of zeros
ParseSimple_zeros(latest_data, parts, now) ==
    IF Len(parts) = 2
    THEN IF FloatRaises(parts[1]) \/ FloatRaises(parts[2])
         THEN [latest_data |-> Reading(0, 0, now), stored |-> TRUE, raised |-> FALSE]
         ELSE [latest_data |-> Reading(FloatOf(parts[1]), FloatOf(parts[2]), now),
               stored |-> TRUE, raised |-> FALSE]
    ELSE [latest_data |-> latest_data, stored |-> FALSE, raised |-> FALSE]

\* lines 107-125: "taken,reported"; ValueError is caught
ParseSimple(latest_data, parts, now) ==
    IF Len(parts) = 2 /\ ~FloatRaises(parts[1]) /\ ~FloatRaises(parts[2])
    THEN [latest_data |-> Reading(FloatOf(parts[1]), FloatOf(parts[2]), now),
          stored |-> TRUE, raised |-> FALSE]
    ELSE [latest_data |-> latest_data, stored |-> FALSE, raised |-> FALSE]

\* process_client_data: the store it leaves and whether an exception leaves
\* it (AttributeError of .get on a value that is no dict, ValueError and
\* TypeError of float(): none of them is caught in lines 105-127)
process_client_data(latest_data, data, now) ==
    IF ~data.utf8
    THEN [latest_data |-> latest_data, stored |-> FALSE, raised |-> FALSE]
    ELSE IF data.json = "invalid"
    THEN ParseSimple(latest_data, data.parts, now)
    ELSE IF data.json # "object"
            \/ FloatRaises(data.taken_liters) \/ FloatRaises(data.reported_liters)
    THEN [latest_data |-> latest_data, stored |-> FALSE, raised |-> TRUE]
    ELSE [latest_data |-> Reading(FloatOf(data.taken_liters),
                                  FloatOf(data.reported_liters), now),
          stored |-> TRUE, raised |-> FALSE]

\* data before the first recv
NoPacket == [utf8 |-> FALSE, json |-> "none"]

\* get_latest_data not called yet
NoSnapshot == [timestamp |-> None]

\* a handler thread before its connection is accepted
Unborn == [pc |-> "unborn", data |-> NoPacket, exit |-> "none"]

\* json.dumps({'action': 'get_data'})
PollRequest == [action |-> "get_data"]

\* the polling thread at its test of self.running
PollerStarted == [pc |-> "loop", clients_copy |-> <<>>, clients_to_remove |-> <<>>]

\* the server after start(): the accept loop at its test of self.running
TcpStarted ==
    [pc |-> "serving", running |-> TRUE, listening |-> TRUE,
     latest_data |-> InitialData, connected_clients |-> <<>>,
     clients_lock |-> "free", listener |-> "loop", poller |-> PollerStarted,
     handler |-> [c \in Conns |-> Unborn], closed |-> {},
     sent |-> [c \in Conns |-> {}],
     received |-> 0, snapshot |-> NoSnapshot]

TcpInit ==
    /\ graph = NewGraph
    /\ built = "new"
    /\ result = NoCall
    /\ env = EnvIdle
    /\ sched = SchedIdle
    /\ fcst = NoForecast
    /\ slp = NoSeries
    /\ tcp = TcpStarted
    /\ app = NotStarted

tcpFrame == <<graph, built, result, schedVars, fcst, slp, app>>

\* the list without the client (connected_clients.remove)
Without(clients, c) == SelectSeq(clients, LAMBDA k : k # c)

InList(clients, c) == \E i \in 1..Len(clients) : clients[i] = c

HandlerAt(c, pc) == tcp.handler[c].pc = pc

Goto(c, pc) == [tcp.handler EXCEPT ![c].pc = pc]

Leave(c, why) == [tcp.handler EXCEPT ![c].pc = "finally", ![c].exit = why]

\* server_loop, line 180: while self.running
ListenerLoop ==
    /\ tcp.listener = "loop"
    /\ tcp' = [tcp EXCEPT !.listener = IF tcp.running THEN "accept" ELSE "done"]
    /\ UNCHANGED tcpFrame

\* server_loop, lines 182-191: accept() and the start of a handler thread
Accept(c) ==
    /\ tcp.listener = "accept"
    /\ tcp.listening
    /\ HandlerAt(c, "unborn")
    /\ tcp' = [tcp EXCEPT !.listener = "loop", !.handler = Goto(c, "register")]
    /\ UNCHANGED tcpFrame

\* server_loop, lines 192-195: accept() raises on the closed socket
AcceptError ==
    /\ tcp.listener = "accept"
    /\ ~tcp.listening
    /\ tcp' = [tcp EXCEPT !.listener = "loop"]
    /\ UNCHANGED tcpFrame

\* handle_client, lines 36-37: with clients_lock: append
Register(c) ==
    /\ HandlerAt(c, "register")
    /\ tcp.clients_lock = "free"
    /\ tcp' = [tcp EXCEPT !.connected_clients = Append(@, c),
                           !.clients_lock = c,
                           !.handler = Goto(c, "registered")]
    /\ UNCHANGED tcpFrame

\* handle_client, lines 38-39: with lock: connected = True, inside clients_lock
RegisterFlag(c) ==
    /\ HandlerAt(c, "registered")
    /\ tcp' = [tcp EXCEPT !.latest_data.connected = TRUE,
                           !.clients_lock = "free",
                           !.handler = Goto(c, "loop")]
    /\ UNCHANGED tcpFrame

\* handle_client, line 45: while self.running
HandlerLoop(c) ==
    /\ HandlerAt(c, "loop")
    /\ tcp' = [tcp EXCEPT !.handler = IF tcp.running THEN Goto(c, "recv")
                                                     ELSE Leave(c, "stopped")]
    /\ UNCHANGED tcpFrame

\* handle_client, lines 48-52: recv returns a packet
Recv(c, data) ==
    /\ HandlerAt(c, "recv")
    /\ c \notin tcp.closed
    /\ tcp.received < MaxPackets
    /\ tcp' = [tcp EXCEPT !.handler = [@ EXCEPT ![c].pc = "process", ![c].data = data],
                           !.received = @ + 1]
    /\ UNCHANGED tcpFrame

\* handle_client, lines 54-56: socket.timeout, continue
RecvTimeout(c) ==
    /\ HandlerAt(c, "recv")
    /\ c \notin tcp.closed
    /\ tcp' = [tcp EXCEPT !.handler = Goto(c, "loop")]
    /\ UNCHANGED tcpFrame

\* handle_client, lines 48-50: recv returns no bytes, break
RecvNothing(c) ==
    /\ HandlerAt(c, "recv")
    /\ c \notin tcp.closed
    /\ tcp' = [tcp EXCEPT !.handler = Leave(c, "closed by client")]
    /\ UNCHANGED tcpFrame

\* handle_client, lines 57-59: recv raises, break
RecvError(c) ==
    /\ HandlerAt(c, "recv")
    /\ tcp' = [tcp EXCEPT !.handler = Leave(c, "socket error")]
    /\ UNCHANGED tcpFrame

\* handle_client, line 52 and lines 57-59: process_client_data, and the
\* break of `except Exception` when it raises
ProcessClientData(c) ==
    /\ HandlerAt(c, "process")
    /\ LET r == process_client_data(tcp.latest_data, tcp.handler[c].data, Now)
       IN tcp' = [tcp EXCEPT !.latest_data = r.latest_data,
                             !.handler = IF r.raised THEN Leave(c, "processing error")
                                                     ELSE Goto(c, "loop")]
    /\ UNCHANGED tcpFrame

\* the finally block that also ends the server
HandlerRemove_stops(c) ==
    /\ HandlerAt(c, "finally")
    /\ tcp.clients_lock = "free"
    /\ tcp' = [tcp EXCEPT !.connected_clients = Without(@, c),
                           !.running = FALSE,
                           !.handler = Goto(c, "flag")]
    /\ UNCHANGED tcpFrame

\* handle_client, lines 63-69: with clients_lock: remove; close the socket
HandlerRemove(c) ==
    /\ HandlerAt(c, "finally")
    /\ tcp.clients_lock = "free"
    /\ tcp' = [tcp EXCEPT !.connected_clients = Without(@, c),
                           !.handler = Goto(c, "flag")]
    /\ UNCHANGED tcpFrame

\* handle_client, lines 72-73: with clients_lock: if the list is empty
HandlerCheck(c) ==
    /\ HandlerAt(c, "flag")
    /\ tcp.clients_lock = "free"
    /\ tcp' = IF Len(tcp.connected_clients) = 0
              THEN [tcp EXCEPT !.clients_lock = c, !.handler = Goto(c, "flag_locked")]
              ELSE [tcp EXCEPT !.handler = Goto(c, "done")]
    /\ UNCHANGED tcpFrame

\* handle_client, lines 74-75: with lock: connected = False, inside clients_lock
HandlerFlag(c) ==
    /\ HandlerAt(c, "flag_locked")
    /\ tcp' = [tcp EXCEPT !.latest_data.connected = FALSE,
                           !.clients_lock = "free",
                           !.handler = Goto(c, "done")]
    /\ UNCHANGED tcpFrame

\* poll_clients, lines 131-132: while self.running, sleep
PollLoop ==
    /\ tcp.poller.pc = "loop"
    /\ tcp' = [tcp EXCEPT !.poller.pc = IF tcp.running THEN "copy" ELSE "done"]
    /\ UNCHANGED tcpFrame

\* poll_clients, lines 134-136: with clients_lock: copy the list
PollCopy ==
    /\ tcp.poller.pc = "copy"
    /\ tcp.clients_lock = "free"
    /\ tcp' = [tcp EXCEPT !.poller = [pc |-> "send",
                                       clients_copy |-> tcp.connected_clients,
                                       clients_to_remove |-> <<>>]]
    /\ UNCHANGED tcpFrame

\* poll_clients, lines 138-143: the poll request is sent to the next client
PollSend ==
    /\ tcp.poller.pc = "send"
    /\ tcp.poller.clients_copy # <<>>
    /\ Head(tcp.poller.clients_copy) \notin tcp.closed
    /\ tcp' = [tcp EXCEPT !.sent[Head(tcp.poller.clients_copy)] = @ \cup {PollRequest},
                           !.poller.clients_copy = Tail(@)]
    /\ UNCHANGED tcpFrame

\* poll_clients, lines 144-149: send raises; with clients_lock: the client is
\* marked when it is still in the list
PollSendError ==
    /\ tcp.poller.pc = "send"
    /\ tcp.poller.clients_copy # <<>>
    /\ tcp.clients_lock = "free"
    /\ LET c == Head(tcp.poller.clients_copy)
       IN tcp' = [tcp EXCEPT !.poller.clients_copy = Tail(@),
                             !.poller.clients_to_remove =
                                 IF InList(tcp.connected_clients, c) THEN Append(@, c) ELSE @]
    /\ UNCHANGED tcpFrame

\* poll_clients, lines 152-160: the next marked client is closed and, with
\* clients_lock, removed
PollRemove ==
    /\ tcp.poller.pc = "send"
    /\ tcp.poller.clients_copy = <<>>
    /\ tcp.poller.clients_to_remove # <<>>
    /\ tcp.clients_lock = "free"
    /\ LET c == Head(tcp.poller.clients_to_remove)
       IN tcp' = [tcp EXCEPT !.closed = @ \cup {c},
                             !.connected_clients = Without(@, c),
                             !.poller.pc = "flag"]
    /\ UNCHANGED tcpFrame

\* poll_clients, lines 163-164: with clients_lock: if the list is empty
PollCheck ==
    /\ tcp.poller.pc = "flag"
    /\ tcp.clients_lock = "free"
    /\ tcp' = IF Len(tcp.connected_clients) = 0
              THEN [tcp EXCEPT !.clients_lock = "poller", !.poller.pc = "flag_locked"]
              ELSE [tcp EXCEPT !.poller.pc = "send", !.poller.clients_to_remove = Tail(@)]
    /\ UNCHANGED tcpFrame

\* poll_clients, lines 165-166: with lock: connected = False, inside clients_lock
PollFlag ==
    /\ tcp.poller.pc = "flag_locked"
    /\ tcp' = [tcp EXCEPT !.latest_data.connected = FALSE,
                           !.clients_lock = "free",
                           !.poller.pc = "send",
                           !.poller.clients_to_remove = Tail(@)]
    /\ UNCHANGED tcpFrame

\* poll_clients, line 138 to line 131: every client polled, none left to remove
PollDone ==
    /\ tcp.poller.pc = "send"
    /\ tcp.poller.clients_copy = <<>>
    /\ tcp.poller.clients_to_remove = <<>>
    /\ tcp' = [tcp EXCEPT !.poller.pc = "loop"]
    /\ UNCHANGED tcpFrame

\* get_latest_data: a copy of the store, taken under the lock
GetLatestData ==
    /\ tcp.pc # "off"
    /\ tcp' = [tcp EXCEPT !.snapshot = tcp.latest_data]
    /\ tcp'.snapshot # tcp.snapshot
    /\ UNCHANGED tcpFrame

\* stop, line 211: self.running = False
StopRunning ==
    /\ tcp.pc = "serving"
    /\ tcp' = [tcp EXCEPT !.pc = "stopping", !.running = FALSE]
    /\ UNCHANGED tcpFrame

\* stop, lines 214-226: close and forget every client, close the socket
StopClose ==
    /\ tcp.pc = "stopping"
    /\ tcp.clients_lock = "free"
    /\ tcp' = [tcp EXCEPT !.pc = "stopped", !.listening = FALSE,
                           !.closed = @ \cup {tcp.connected_clients[i] :
                                                 i \in 1..Len(tcp.connected_clients)},
                           !.connected_clients = <<>>]
    /\ UNCHANGED tcpFrame

HandlerStep(c) ==
    \/ Register(c)
    \/ RegisterFlag(c)
    \/ HandlerLoop(c)
    \/ RecvTimeout(c)
    \/ RecvNothing(c)
    \/ RecvError(c)
    \/ ProcessClientData(c)
    \/ HandlerRemove(c)
    \/ HandlerCheck(c)
    \/ HandlerFlag(c)

PollStep ==
    \/ PollLoop
    \/ PollCopy
    \/ PollSend
    \/ PollSendError
    \/ PollRemove
    \/ PollCheck
    \/ PollFlag
    \/ PollDone

TcpNext ==
    \/ ListenerLoop
    \/ \E c \in Conns : Accept(c)
    \/ AcceptError
    \/ \E c \in Conns : HandlerStep(c)
    \/ \E c \in Conns, data \in Packets : Recv(c, data)
    \/ GetLatestData
    \/ StopRunning
    \/ StopClose

(***************************************************************************)
(* TcpSpec: the accept loop, the handlers, get_latest_data and stop        *)
(***************************************************************************)
TcpSpec == TcpInit /\ [][TcpNext]_vars

PollNext ==
    \/ ListenerLoop
    \/ \E c \in Conns : Accept(c)
    \/ \E c \in Conns : HandlerStep(c)
    \/ \E c \in Conns, data \in Packets : Recv(c, data)
    \/ PollStep

(***************************************************************************)
(* PollSpec: the accept loop, the handlers and the polling thread          *)
(***************************************************************************)
PollSpec == TcpInit /\ [][PollNext]_vars

(***************************************************************************)
(* The live-reading store                                                  *)
(***************************************************************************)
\* the three numbers of a stored reading
Numbers(d) == <<d.taken_liters, d.reported_liters, d.discrepancy>>

\* the numbers the packet alone stores
NumbersOf(data) == Numbers(process_client_data(InitialData, data, Now).latest_data)

\* C15: in every state the store, and every snapshot get_latest_data has
\* returned, holds discrepancy = taken_liters - reported_liters, and its three
\* numbers are those of one packet (or of the initial store), never a mix of
\* two packets, under any interleaving of the handlers.
C15_DiscrepancyOfOneReading ==
    \A d \in {tcp.latest_data} \cup (IF tcp.snapshot = NoSnapshot THEN {} ELSE {tcp.snapshot}) :
        /\ d.discrepancy = d.taken_liters - d.reported_liters
        /\ \E data \in Packets : Numbers(d) = NumbersOf(data)

\* two handlers have stored a reading each, and a snapshot of the first was
\* returned before the second replaced it
C15_Witness ==
    /\ tcp.snapshot # NoSnapshot
    /\ Numbers(tcp.snapshot) = <<125, 100, 25>>
    /\ Numbers(tcp.latest_data) = <<50, 80, -30>>
    /\ \A c \in Conns : tcp.handler[c].pc = "loop"

\* text that is neither JSON nor a pair "a,b" of numbers, or bytes that are
\* not UTF-8
Malformed(data) ==
    \/ ~data.utf8
    \/ /\ data.json = "invalid"
       /\ ~(Len(data.parts) = 2 /\ data.parts[1].t = "number" /\ data.parts[2].t = "number")

\* C16: the step in which a handler processes a malformed packet (text that
\* is neither JSON nor a two-field pair of numbers, or bytes that are not
\* valid UTF-8) leaves every field of the live-reading store as it was.
C16_MalformedLeavesStore ==
    [][\A c \in Conns :
          (HandlerAt(c, "process") /\ tcp'.handler[c].pc # "process"
               /\ Malformed(tcp.handler[c].data))
              => tcp'.latest_data = tcp.latest_data]_vars

\* a handler is back at its loop after a malformed packet, and the store
\* still holds the reading stored before it
C16_Witness ==
    \E c \in Conns :
        /\ HandlerAt(c, "loop")
        /\ tcp.handler[c].data # NoPacket
        /\ Malformed(tcp.handler[c].data)
        /\ Numbers(tcp.latest_data) = <<125, 100, 25>>

\* a packet that holds a reading: a JSON object or a pair "a,b", of numbers
ParsesAsReading(data) ==
    /\ data.utf8
    /\ \/ /\ data.json = "object"
          /\ data.taken_liters.t # "text"
          /\ data.reported_liters.t # "text"
       \/ /\ data.json = "invalid"
          /\ Len(data.parts) = 2
          /\ data.parts[1].t = "number"
          /\ data.parts[2].t = "number"

\* C17: no malformed packet terminates its handler: a handler that has
\* processed a packet which does not parse as a reading (valid JSON that is no
\* object and a JSON object with a field that is no number included) is back
\* at its loop, ready for the next packet of the connection.
C17_MalformedSkipped ==
    [][\A c \in Conns :
          (HandlerAt(c, "process") /\ tcp'.handler[c].pc # "process"
               /\ ~ParsesAsReading(tcp.handler[c].data))
              => tcp'.handler[c].pc = "loop"]_vars

\* {"status": "received", "discrepancy": d}
Acknowledgment(d) == [status |-> "received", discrepancy |-> d]

\* {"status": "error", "message": "Invalid data format"}
ErrorMessage == [status |-> "error", message |-> "Invalid data format"]

\* the handler has processed its packet and is back in its loop
Processed(c) ==
    /\ tcp.handler[c].pc \in {"loop", "recv"}
    /\ tcp.handler[c].data # NoPacket

\* C18: once a handler has processed a JSON-framed reading, the connection
\* has been sent an acknowledgment with status "received" and the discrepancy
\* of the reading (2.5 for taken 12.5 and reported 10.0); once it has
\* processed a malformed input, the connection has been sent the error
\* message "Invalid data format".
C18_Answered ==
    \A c \in Conns :
        Processed(c) =>
            LET data == tcp.handler[c].data
            IN /\ (data.json = "object" /\ ParsesAsReading(data))
                      => Acknowledgment(FloatOf(data.taken_liters) - FloatOf(data.reported_liters))
                             \in tcp.sent[c]
               /\ Malformed(data) => ErrorMessage \in tcp.sent[c]

\* the handler of c has left its loop on a zero-length read or a socket error
ConnectionEnded(c) == tcp.handler[c].exit \in {"closed by client", "socket error"}

\* a step of the handler of c on its way out; the handler is gone at "done"
EndingStep(c) ==
    /\ tcp'.handler[c] # tcp.handler[c]
    /\ tcp'.handler[c].exit \in {"closed by client", "socket error"}

\* C19: a zero-length read or a socket error on one connection ends only the
\* handler of that connection.  No step of the ending handler changes the
\* handler of another connection, the accept loop, self.running or the
\* listening socket; and as long as stop() is not called, whatever connections
\* have ended, the server runs, the accept loop is alive on its open socket,
\* and no handler has been stopped.
C19_OnlyThatHandler ==
    /\ [](tcp.pc = "serving" =>
              /\ tcp.running /\ tcp.listening
              /\ tcp.listener \in {"loop", "accept"}
              /\ \A c \in Conns : tcp.handler[c].exit \in {"none", "closed by client", "socket error", "processing error"})
    /\ [][\A c \in Conns :
             EndingStep(c) =>
                 /\ \A d \in Conns \ {c} : tcp'.handler[d] = tcp.handler[d]
                 /\ tcp'.listener = tcp.listener
                 /\ tcp'.running = tcp.running
                 /\ tcp'.listening = tcp.listening]_vars

\* one connection was closed by its client and its handler is gone; the
\* handler of the other connection has processed a reading and waits for
\* the next packet, and the accept loop waits in accept()
C19_Witness ==
    /\ tcp.handler["k1"].pc = "done"
    /\ tcp.handler["k1"].exit = "closed by client"
    /\ tcp.handler["k2"].pc = "recv"
    /\ tcp.handler["k2"].data = JsonReading
    /\ tcp.latest_data = Reading(125, 100, Now)
    /\ tcp.listener = "accept"
    /\ tcp.running

(***************************************************************************)
(* app.py and run.py: the threads that share the shutdown event.           *)
(* start_tcp_server is the listener, client_handler_thread the handler of  *)
(* one connection, data_update_worker the periodic recomputation.          *)
(***************************************************************************)
\* the recomputation cycles the worker starts
MaxCycles == 2

\* struct.unpack('<IIIII', data): a record of 20 bytes
RecordSize == 20

\* the bytes one recv(20) returns: a short record, a whole record
RecvSizes == {4, RecordSize}

\* a handler thread before its connection is accepted
NoThread == [pc |-> "unborn", exit |-> "none", printed |-> "none"]

\* run.py after line 40: the threads are started, the event is clear
AppStarted ==
    [pc |-> "running", stop_event |-> FALSE, listener |-> "bind",
     handler |-> [c \in Conns |-> NoThread],
     worker |-> "loop", cycles |-> 0, published |-> 0]

AppInit ==
    /\ graph = NewGraph
    /\ built = "new"
    /\ result = NoCall
    /\ env = EnvIdle
    /\ sched = SchedIdle
    /\ fcst = NoForecast
    /\ slp = NoSeries
    /\ tcp = NotStarted
    /\ app = AppStarted

appFrame == <<graph, built, result, schedVars, fcst, slp, tcp>>

\* run.py, lines 10-13: the signal handler sets the event
graceful_shutdown ==
    /\ app.pc = "running"
    /\ ~app.stop_event
    /\ app' = [app EXCEPT !.stop_event = TRUE]
    /\ UNCHANGED appFrame

\* start_tcp_server, lines 107-118: bind and listen
ListenerBind ==
    /\ app.listener = "bind"
    /\ app' = [app EXCEPT !.listener = "loop"]
    /\ UNCHANGED appFrame

\* start_tcp_server, lines 112-114: bind fails, return
ListenerBindFails ==
    /\ app.listener = "bind"
    /\ app' = [app EXCEPT !.listener = "done"]
    /\ UNCHANGED appFrame

\* start_tcp_server, line 122: while not stop_event.is_set()
ListenerTest ==
    /\ app.listener = "loop"
    /\ app' = [app EXCEPT !.listener = IF app.stop_event THEN "done" ELSE "accept"]
    /\ UNCHANGED appFrame

\* start_tcp_server, lines 125-136: accept and start the handler thread
ListenerAccept(c) ==
    /\ app.listener = "accept"
    /\ app.handler[c].pc = "unborn"
    /\ app' = [app EXCEPT !.listener = "loop", !.handler[c].pc = "loop"]
    /\ UNCHANGED appFrame

\* start_tcp_server, lines 138-141: accept times out after one second
ListenerTimeout ==
    /\ app.listener = "accept"
    /\ app' = [app EXCEPT !.listener = "loop"]
    /\ UNCHANGED appFrame

\* start_tcp_server, lines 142-143: accept raises
ListenerError ==
    /\ app.listener = "accept"
    /\ app' = [app EXCEPT !.listener = "wait"]
    /\ UNCHANGED appFrame

\* start_tcp_server, line 144: stop_event.wait(1) returns
ListenerWait ==
    /\ app.listener = "wait"
    /\ app' = [app EXCEPT !.listener = "loop"]
    /\ UNCHANGED appFrame

\* the handler loop that does not look at the event
ClientTest_always(c) ==
    /\ app.handler[c].pc = "loop"
    /\ app' = [app EXCEPT !.handler[c].pc = "recv"]
    /\ UNCHANGED appFrame

\* client_handler_thread, line 61: while not stop_event.is_set()
ClientTest(c) ==
    /\ app.handler[c].pc = "loop"
    /\ app' = IF app.stop_event
              THEN [app EXCEPT !.handler[c].pc = "done", !.handler[c].exit = "stopped"]
              ELSE [app EXCEPT !.handler[c].pc = "recv"]
    /\ UNCHANGED appFrame

\* client_handler_thread, lines 63-83: recv(20) returns n bytes: a record of
\* 20 bytes is unpacked and printed, fewer bytes are an incomplete packet
ClientRecv(c, n) ==
    /\ app.handler[c].pc = "recv"
    /\ app' = [app EXCEPT !.handler[c].pc = "loop",
                           !.handler[c].printed = IF n = RecordSize THEN "Received"
                                                                    ELSE "incomplete"]
    /\ UNCHANGED appFrame

\* client_handler_thread, lines 85-87: recv times out after one second
ClientTimeout(c) ==
    /\ app.handler[c].pc = "recv"
    /\ app' = [app EXCEPT !.handler[c].pc = "loop"]
    /\ UNCHANGED appFrame

\* client_handler_thread, lines 64-66: recv returns no bytes, break
ClientClosed(c) ==
    /\ app.handler[c].pc = "recv"
    /\ app' = [app EXCEPT !.handler[c].pc = "done", !.handler[c].exit = "closed by client"]
    /\ UNCHANGED appFrame

\* client_handler_thread, lines 88-93: recv raises, break
ClientError(c) ==
    /\ app.handler[c].pc = "recv"
    /\ app' = [app EXCEPT !.handler[c].pc = "done", !.handler[c].exit = "socket error"]
    /\ UNCHANGED appFrame

\* data_update_worker, lines 155-156: while not stop_event.is_set(); a cycle
\* starts when the test passes
WorkerTest ==
    /\ app.worker = "loop"
    /\ app.stop_event \/ app.cycles < MaxCycles
    /\ app' = IF app.stop_event
              THEN [app EXCEPT !.worker = "done"]
              ELSE [app EXCEPT !.worker = "compute", !.cycles = @ + 1]
    /\ UNCHANGED appFrame

\* data_update_worker, lines 159-161: the recomputation returns
WorkerCompute ==
    /\ app.worker = "compute"
    /\ app' = [app EXCEPT !.worker = "publish"]
    /\ UNCHANGED appFrame

\* data_update_worker, lines 176-177: the recomputation raises
WorkerFails ==
    /\ app.worker = "compute"
    /\ app' = [app EXCEPT !.worker = "wait"]
    /\ UNCHANGED appFrame

\* data_update_worker, lines 164-174: with df_lock: publish the new frames
WorkerPublish ==
    /\ app.worker = "publish"
    /\ app' = [app EXCEPT !.worker = "wait", !.published = @ + 1]
    /\ UNCHANGED appFrame

\* data_update_worker, line 180: stop_event.wait(900) returns, after 900
\* seconds or as soon as the event is set
WorkerWait ==
    /\ app.worker = "wait"
    /\ app' = [app EXCEPT !.worker = "loop"]
    /\ UNCHANGED appFrame

start_tcp_server ==
    \/ ListenerBind
    \/ ListenerBindFails
    \/ ListenerTest
    \/ \E c \in Conns : ListenerAccept(c)
    \/ ListenerTimeout
    \/ ListenerError
    \/ ListenerWait

client_handler_thread(c) ==
    \/ ClientTest(c)
    \/ \E n \in RecvSizes : ClientRecv(c, n)
    \/ ClientTimeout(c)
    \/ ClientClosed(c)
    \/ ClientError(c)

data_update_worker ==
    \/ WorkerTest
    \/ WorkerCompute
    \/ WorkerFails
    \/ WorkerPublish
    \/ WorkerWait

AppNext ==
    \/ graceful_shutdown
    \/ start_tcp_server
    \/ \E c \in Conns : client_handler_thread(c)
    \/ data_update_worker

(***************************************************************************)
(* AppSpec: the threads of app.py and the shutdown event                   *)
(***************************************************************************)
AppSpec == AppInit /\ [][AppNext]_vars

\* every thread that can take a step is scheduled: accept and recv time out
\* after one second, stop_event.wait returns, the recomputation returns or
\* raises
AppFairness ==
    /\ WF_vars(start_tcp_server)
    /\ \A c \in Conns : WF_vars(client_handler_thread(c))
    /\ WF_vars(data_update_worker)

(***************************************************************************)
(* AppFairSpec: AppSpec with every thread scheduled                        *)
(***************************************************************************)
AppFairSpec == AppSpec /\ AppFairness

\* no thread of app.py is left running
AllThreadsExited ==
    /\ app.listener = "done"
    /\ \A c \in Conns : app.handler[c].pc \in {"unborn", "done"}
    /\ app.worker = "done"

\* C20: once the shutdown event is set, with every thread scheduled, the
\* listener loop terminates, every running handler exits, whether its client
\* keeps sending or stays silent, and the recomputation loop exits; and from
\* the moment the event is set the listener's loop test never leads back to
\* accept and the worker starts no recomputation cycle.
C20_ShutdownCompletes ==
    /\ app.stop_event ~> AllThreadsExited
    /\ [][app.stop_event =>
             /\ app'.cycles = app.cycles
             /\ app.listener = "loop" => app'.listener # "accept"
             /\ \A c \in Conns : app.handler[c].pc = "loop" => app'.handler[c].pc # "recv"]_vars

\* the event is set and every thread has exited: the worker after a cycle,
\* one handler whose client was sending records and one whose client was
\* silent, both stopped by the event
C20_Witness ==
    /\ app.stop_event
    /\ AllThreadsExited
    /\ app.cycles > 0
    /\ app.handler["k1"].exit = "stopped" /\ app.handler["k1"].printed = "Received"
    /\ app.handler["k2"].exit = "stopped" /\ app.handler["k2"].printed = "none"

(***************************************************************************)
(* More properties of the plans of create_daily_schedule                   *)
(***************************************************************************)
\* the fields of a SchedulePlan
PlanFields ==
    {"date", "assignments", "couriers_needed", "unassigned_pickups", "total_distance_km"}

\* C21 (as claimed): every plan create_daily_schedule returns, the empty plans
\* returned when reference data or forecasts are missing included, carries
\* the five fields date, assignments, couriers_needed, unassigned_pickups and
\* total_distance_km.
C21_FiveFields == Returned => PlanFields \subseteq DOMAIN sched.plan

\* the threshold-crossing time of the cauldron falls within the hours left
\* until the end of the target date
CrossesWithin(c, hours) ==
    /\ c.brew_rate > 0
    /\ (Pct80(c.max_volume) - c.current_level) * RateScale <= hours * c.brew_rate

HasNeed(c) == \E i \in 1..Len(sched.low_rate_pickups) : sched.low_rate_pickups[i].cauldron_id = c.cauldron_id

\* C22 (as claimed): a cauldron is given a pickup need if and only if its
\* current percentage is at or above 80% or its threshold-crossing time falls
\* within the scheduling window, which ends at the end of the target date; a
\* cauldron with zero rate below the threshold gets no need.
C22_NeedIffInWindow ==
    FullPlan =>
        \A c \in Range(sched.low_rate_cauldrons) :
            HasNeed(c) <=> \/ c.current_percentage >= 80
                           \/ CrossesWithin(c, env.hours_to_end_of_date)

\* the cauldron data behind a pickup need
CauldronOf(need) ==
    CHOOSE c \in Range(sched.low_rate_cauldrons) : c.cauldron_id = need.cauldron_id

\* need p crosses the threshold in fewer hours than need q; a cauldron at or
\* above 80% crosses in zero hours, the others in remaining_to_80 / brew_rate
MoreUrgent(p, q) ==
    LET cp == CauldronOf(p)
        cq == CauldronOf(q)
        rp == IF cp.current_percentage >= 80 THEN 0 ELSE Pct80(cp.max_volume) - cp.current_level
        rq == IF cq.current_percentage >= 80 THEN 0 ELSE Pct80(cq.max_volume) - cq.current_level
        dp == IF cp.current_percentage >= 80 THEN 1 ELSE cp.brew_rate
        dq == IF cq.current_percentage >= 80 THEN 1 ELSE cq.brew_rate
    IN rp * dq < rq * dp

\* the trips opened by the packing loop that hold the need, by their place
\* in the plan
PackedTrips(need) ==
    {i \in 1..Len(sched.plan.assignments) :
        /\ sched.plan.assignments[i].category = "Low Rate (80%)"
        /\ need.cauldron_id \in Range(sched.plan.assignments[i].cauldrons_visited)}

\* the need is in no trip at all
LeftOver(need) == Visits(need.cauldron_id) = 0

\* C23 (as claimed): needs are packed in ascending urgency order: whenever a
\* need is left unassigned or placed in a later trip than a less urgent need,
\* the two could not have been exchanged, that is, the earlier trip could not
\* carry the more urgent need in the place of the less urgent one.
C23_UrgencyOrder ==
    FullPlan =>
        \A p, q \in Range(sched.low_rate_pickups) :
            \A j \in PackedTrips(q) :
                (MoreUrgent(p, q) /\ (LeftOver(p) \/ \E i \in PackedTrips(p) : j < i))
                    => sched.plan.assignments[j].volume_collected
                           - q.volume_to_collect + p.volume_to_collect > WITCH_CAPACITY

\* C24 (as claimed): with a non-empty courier reference list, no courier
\* identity appears in more than one assignment of a plan, so the plan has at
\* most as many assignments as there are couriers.
C24_OneTripPerCourier ==
    (FullPlan /\ sched.couriers # <<>>) =>
        /\ \A i, j \in 1..Len(sched.plan.assignments) :
               sched.plan.assignments[i].courier_id = sched.plan.assignments[j].courier_id => i = j
        /\ Len(sched.plan.assignments) <= Len(sched.couriers)

\* C29 (as claimed): in every returned plan each assignment's route starts at
\* 'market', ends at 'market' and contains every site of the assignment's
\* cauldrons_visited.
C29_RouteShape ==
    Returned =>
        \A i \in 1..Len(sched.plan.assignments) :
            LET a == sched.plan.assignments[i]
            IN /\ a.route # <<>>
               /\ a.route[1] = "market"
               /\ Last(a.route) = "market"
               /\ Range(a.cauldrons_visited) \subseteq Range(a.route)

\* a requested site the optimizer can never be routed to: it is no node of
\* the graph, or it has no coordinates and no path leads to it from any other
\* node
Stranded(g, c) ==
    \/ c \notin DOMAIN g.nodes
    \/ /\ ~g.nodes[c].coords
       /\ \A a \in DOMAIN g.nodes \ {c} : ~PathExists(g, a, c)

\* C25 (as claimed): every requested site of optimize_route that has no graph
\* path from the current position and no coordinates for the straight-line
\* fallback, a site that is no node of the graph included, still appears in
\* the returned route; when every requested site is such a site and the route
\* starts and ends at the same place, the total time and distance are zero.
C25_UnreachableAppended ==
    (RouteCall /\ result.start \notin Range(result.visit)) =>
        /\ \A c \in Range(result.visit) :
               Stranded(graph, c) => c \in Range(result.route)
        /\ ((\A c \in Range(result.visit) : Stranded(graph, c))
                /\ result.start = result.end)
              => (result.time = 0 /\ result.distance = 0)

\* a high-rate trip took a low-rate need on board and was re-optimised: its
\* route leaves from the market, passes both cauldrons and returns
C29_Witness ==
    /\ Returned
    /\ \E i \in 1..Len(sched.plan.assignments) :
          LET a == sched.plan.assignments[i]
          IN /\ a.category = "High Rate"
             /\ Len(a.cauldrons_visited) = 2
             /\ Len(a.route) >= 4
             /\ a.route[1] = "market"
             /\ Last(a.route) = "market"
             /\ Range(a.cauldrons_visited) \subseteq Range(a.route)

\* the directed paths from a to b that repeat no site: with non-negative
\* travel times no other path is shorter.  A path follows the edges, also
\* through a site that was named by an edge and never added as a node.
SimplePaths(g, a, b) ==
    {p \in UNION {[1..k -> SiteIds] : k \in 1..Cardinality(SiteIds)} :
        /\ p[1] = a
        /\ p[Len(p)] = b
        /\ \A i \in 1..Len(p), j \in 1..Len(p) : p[i] = p[j] => i = j
        /\ \A i \in 1..(Len(p) - 1) : HasEdge(g, p[i], p[i + 1])}

\* the sum of the edge travel times along a path
PathTime(g, p) ==
    SumSeq([i \in 1..(Len(p) - 1) |-> g.edges[p[i]][p[i + 1]].travel_time])

\* C30: when start and end are nodes connected by a path, the total time
\* returned by Graph.dijkstra is the minimum, over all directed paths from
\* start to end, of the sum of the edge travel times.
C30_MinimumTime ==
    (/\ result.op = "dijkstra"
     /\ result.start \in DOMAIN graph.nodes
     /\ result.end \in DOMAIN graph.nodes
     /\ PathExists(graph, result.start, result.end))
    => /\ \E p \in SimplePaths(graph, result.start, result.end) :
              PathTime(graph, p) = result.time
       /\ \A p \in SimplePaths(graph, result.start, result.end) :
              result.time <= PathTime(graph, p)

\* the direct edge from start to end costs more than the way round: the
\* query returned the two-edge path and its time
C30_Witness ==
    /\ result.op = "dijkstra"
    /\ HasEdge(graph, result.start, result.end)
    /\ graph.edges[result.start][result.end].travel_time = 5
    /\ Len(result.route) = 3
    /\ result.time = 2

(***************************************************************************)
(* app.py: the cache of the static reference data                          *)
(*                                                                         *)
(* Flask serves each request on a thread of its own; the endpoints         *)
(* /api/Forecast, /api/couriers, /api/market and /api/network all call     *)
(* get_cached_static_data.  time.time() is a clock that advances by half   *)
(* the cache duration at a step.  A cached value is modelled by the clock  *)
(* reading at which it was fetched; a fetcher that fails returns its empty *)
(* value (the fetchers catch every Exception), and that value is cached    *)
(* like any other.                                                         *)
(***************************************************************************)
MaxTicks == 4

CACHE_DURATION_SECONDS == 3600

ClockTick == CACHE_DURATION_SECONDS \div 2

\* the request threads
Callers == {"r1", "r2"}

Free == "free"

IdleCaller == [pc |-> "idle", current_time |-> None, returned |-> <<>>]

CacheStarted ==
    [pc |-> "cache", clock |-> 0, static_data_lock |-> Free,
     cached_cauldrons |-> None, cached_couriers |-> None,
     cached_market |-> None, cached_network |-> None,
     cache_timestamp |-> None,
     caller |-> [c \in Callers |-> IdleCaller]]

CacheInit ==
    /\ graph = NewGraph
    /\ built = "new"
    /\ result = NoCall
    /\ env = EnvIdle
    /\ sched = SchedIdle
    /\ fcst = NoForecast
    /\ slp = NoSeries
    /\ tcp = NotStarted
    /\ app = CacheStarted

\* the condition "Check if cache is valid" with one test only
CacheExpired_unset(a, current_time) == a.cache_timestamp = None

\* the condition of lines 329-331
CacheExpired(a, current_time) ==
    \/ a.cache_timestamp = None
    \/ current_time - a.cache_timestamp > CACHE_DURATION_SECONDS
    \/ a.cached_cauldrons = None

\* time passes
ClockAdvance ==
    /\ app.clock < MaxTicks * ClockTick
    /\ app' = [app EXCEPT !.clock = @ + ClockTick]
    /\ UNCHANGED appFrame

\* an endpoint calls get_cached_static_data
CacheCall(c) ==
    /\ app.caller[c].pc \in {"idle", "done"}
    /\ app' = [app EXCEPT !.caller[c] = [IdleCaller EXCEPT !.pc = "lock"]]
    /\ UNCHANGED appFrame

\* with static_data_lock: current_time = time.time()
CacheAcquire(c) ==
    /\ app.caller[c].pc = "lock"
    /\ app.static_data_lock = Free
    /\ app' = [app EXCEPT !.static_data_lock = c,
                          !.caller[c].pc = "check",
                          !.caller[c].current_time = app.clock]
    /\ UNCHANGED appFrame

CacheCheck(c) ==
    /\ app.caller[c].pc = "check"
    /\ app' = [app EXCEPT !.caller[c].pc =
                   IF CacheExpired(app, app.caller[c].current_time)
                   THEN "fetch_cauldrons" ELSE "return"]
    /\ UNCHANGED appFrame

CacheFetchCauldrons(c) ==
    /\ app.caller[c].pc = "fetch_cauldrons"
    /\ app' = [app EXCEPT !.cached_cauldrons = app.clock,
                          !.caller[c].pc = "fetch_couriers"]
    /\ UNCHANGED appFrame

CacheFetchCouriers(c) ==
    /\ app.caller[c].pc = "fetch_couriers"
    /\ app' = [app EXCEPT !.cached_couriers = app.clock,
                          !.caller[c].pc = "fetch_market"]
    /\ UNCHANGED appFrame

CacheFetchMarket(c) ==
    /\ app.caller[c].pc = "fetch_market"
    /\ app' = [app EXCEPT !.cached_market = app.clock,
                          !.caller[c].pc = "fetch_network"]
    /\ UNCHANGED appFrame

\* cached_network = fetch_network_data(); cache_timestamp = current_time
CacheFetchNetwork(c) ==
    /\ app.caller[c].pc = "fetch_network"
    /\ app' = [app EXCEPT !.cached_network = app.clock,
                          !.cache_timestamp = app.caller[c].current_time,
                          !.caller[c].pc = "return"]
    /\ UNCHANGED appFrame

\* the return statement inside the with block: the tuple is built, then the
\* lock is released
CacheReturn(c) ==
    /\ app.caller[c].pc = "return"
    /\ app' = [app EXCEPT !.static_data_lock = Free,
                          !.caller[c].pc = "done",
                          !.caller[c].returned =
                              <<app.cached_cauldrons, app.cached_couriers,
                                app.cached_market, app.cached_network>>]
    /\ UNCHANGED appFrame

get_cached_static_data(c) ==
    \/ CacheCall(c)
    \/ CacheAcquire(c)
    \/ CacheCheck(c)
    \/ CacheFetchCauldrons(c)
    \/ CacheFetchCouriers(c)
    \/ CacheFetchMarket(c)
    \/ CacheFetchNetwork(c)
    \/ CacheReturn(c)

CacheNext ==
    \/ ClockAdvance
    \/ \E c \in Callers : get_cached_static_data(c)

CacheSpec == CacheInit /\ [][CacheNext]_vars

\* the steps of a refresh
Refreshing(c) ==
    app.caller[c].pc \in {"fetch_cauldrons", "fetch_couriers", "fetch_market", "fetch_network"}

\* C28: under any interleaving of concurrent callers get_cached_static_data
\* refreshes the reference data under static_data_lock on the first access
\* after the cache duration has expired or when nothing is cached: at most
\* one refresh runs at a time, and no call returns a value that is missing or
\* was fetched more than the cache duration before the moment of the access.
C28_FreshUnderLock ==
    /\ \A c \in Callers : Refreshing(c) => app.static_data_lock = c
    /\ \A c, d \in Callers : (Refreshing(c) /\ Refreshing(d)) => c = d
    /\ \A c \in Callers :
          app.caller[c].pc = "done" =>
              \A i \in 1..4 :
                  /\ app.caller[c].returned[i] # None
                  /\ app.caller[c].current_time - app.caller[c].returned[i]
                         <= CACHE_DURATION_SECONDS

\* one caller was served from the cache at exactly the cache duration after
\* the refresh, the other found the cache expired later and refreshed it
C28_Witness ==
    /\ app.caller["r1"].pc = "done"
    /\ app.caller["r1"].current_time = CACHE_DURATION_SECONDS
    /\ app.caller["r1"].returned[1] = 0
    /\ app.caller["r2"].pc = "done"
    /\ app.caller["r2"].current_time = CACHE_DURATION_SECONDS + ClockTick
    /\ app.caller["r2"].returned[1] >= CACHE_DURATION_SECONDS + ClockTick

(***************************************************************************)
(* app.py: the request-serving path and the recomputation loop             *)
(*                                                                         *)
(* Each request runs its route function on a thread of its own.  A route   *)
(* is modelled by the lock its `with` statement takes ("none" when it has  *)
(* no `with`) and by the module global it reads or writes.  A thread is    *)
(* at "enter" before the `with`, at "access" when it touches the global,   *)
(* at "leave" when the access is done and the lock, if any, still held.    *)
(***************************************************************************)
MaxPosts == 2

Requests == {"q1", "q2"}

Route(lock, var, kind) == [lock |-> lock, var |-> var, kind |-> kind]

Routes ==
    [get_drain_rate_section_route |-> Route("df_lock", "drain_rate_df", "read"),
     get_live_drain_rate_section_route |-> Route("df_lock", "live_db", "read"),
     live_data |-> Route("none", "live_db", "read"),
     get_fill_rate_section_route |-> Route("df_lock", "fill_rate_df", "read"),
     get_live_descrepencies |-> Route("none", "data_db", "read"),
     get_descrepencies |-> Route("none", "live_db", "read"),
     update_live_data |-> Route("tcp_data_lock", "tcp_data", "append"),
     get_fill_rate_live |-> Route("df_lock", "live_db", "read")]

IdleRequest == [pc |-> "idle", route |-> "none"]

\* live_db is assigned nowhere in app.py
WebStarted ==
    [pc |-> "web",
     locks |-> [df_lock |-> Free, tcp_data_lock |-> Free],
     data_db |-> None, fill_rate_df |-> None, drain_rate_df |-> None,
     live_db |-> None, tcp_data |-> 0,
     worker |-> "compute", cycles |-> 0,
     outcome |-> "none", previous |-> <<None, None, None>>,
     request |-> [q \in Requests |-> IdleRequest]]

WebInit ==
    /\ graph = NewGraph
    /\ built = "new"
    /\ result = NoCall
    /\ env = EnvIdle
    /\ sched = SchedIdle
    /\ fcst = NoForecast
    /\ slp = NoSeries
    /\ tcp = NotStarted
    /\ app = WebStarted

\* the locks a thread holds
Held(t) == {l \in DOMAIN app.locks : app.locks[l] = t}

\* a request arrives for a route
WebRequest(q, r) ==
    /\ app.request[q].pc = "idle"
    /\ app' = [app EXCEPT !.request[q] = [pc |-> "enter", route |-> r]]
    /\ UNCHANGED appFrame

\* the `with <lock>:` of the route, when it has one
WebEnter(q) ==
    /\ app.request[q].pc = "enter"
    /\ LET l == Routes[app.request[q].route].lock
       IN IF l = "none"
          THEN app' = [app EXCEPT !.request[q].pc = "access"]
          ELSE /\ app.locks[l] = Free
               /\ app' = [app EXCEPT !.locks[l] = q, !.request[q].pc = "access"]
    /\ UNCHANGED appFrame

\* the read of the global, or tcp_data.append(new_data)
WebAccess(q) ==
    /\ app.request[q].pc = "access"
    /\ IF Routes[app.request[q].route].kind = "append"
       THEN /\ app.tcp_data < MaxPosts
            /\ app' = [app EXCEPT !.tcp_data = @ + 1, !.request[q].pc = "leave"]
       ELSE app' = [app EXCEPT !.request[q].pc = "leave"]
    /\ UNCHANGED appFrame

\* the end of the `with` block and of the request
WebLeave(q) ==
    /\ app.request[q].pc = "leave"
    /\ app' = [app EXCEPT !.locks = [l \in DOMAIN app.locks |->
                                        IF app.locks[l] = q THEN Free ELSE app.locks[l]],
                          !.request[q] = IdleRequest]
    /\ UNCHANGED appFrame

\* the aggregates as they are published
Aggregates == <<app.data_db, app.fill_rate_df, app.drain_rate_df>>

\* data_update_worker: one of the computations of lines 159-161 raises; the
\* except clause prints and the loop goes on.  outcome and previous record
\* how the last cycle ended and what was published when it began.
UpdateFails ==
    /\ app.worker = "compute"
    /\ app.cycles < MaxCycles
    /\ app' = [app EXCEPT !.outcome = "failed", !.previous = Aggregates]
    /\ UNCHANGED appFrame

\* data_update_worker: the new frames are computed, then `with df_lock:`
UpdateLock ==
    /\ app.worker = "compute"
    /\ app.cycles < MaxCycles
    /\ app.locks["df_lock"] = Free
    /\ app' = [app EXCEPT !.locks["df_lock"] = "worker", !.worker = "assign",
                          !.outcome = "none", !.previous = Aggregates]
    /\ UNCHANGED appFrame

\* the three assignments to the globals
UpdateAssign ==
    /\ app.worker = "assign"
    /\ app' = [app EXCEPT !.data_db = app.cycles + 1,
                          !.fill_rate_df = app.cycles + 1,
                          !.drain_rate_df = app.cycles + 1,
                          !.cycles = @ + 1,
                          !.worker = "written"]
    /\ UNCHANGED appFrame

\* one of the to_csv calls raises: the block is left by the exception, the
\* except clause prints and the loop goes on
UpdateSaveFails ==
    /\ app.worker = "written"
    /\ app' = [app EXCEPT !.locks["df_lock"] = Free, !.worker = "compute",
                          !.outcome = "failed"]
    /\ UNCHANGED appFrame

\* the csv files are written and the block is left
UpdateUnlock ==
    /\ app.worker = "written"
    /\ app' = [app EXCEPT !.locks["df_lock"] = Free, !.worker = "compute",
                          !.outcome = "published"]
    /\ UNCHANGED appFrame

WebNext ==
    \/ \E q \in Requests, r \in DOMAIN Routes : WebRequest(q, r)
    \/ \E q \in Requests : WebEnter(q)
    \/ \E q \in Requests : WebAccess(q)
    \/ \E q \in Requests : WebLeave(q)
    \/ UpdateFails
    \/ UpdateLock
    \/ UpdateAssign
    \/ UpdateSaveFails
    \/ UpdateUnlock

WebSpec == WebInit /\ [][WebNext]_vars

\* the request thread is at its access of one of the given globals
Accessing(q, globals) ==
    /\ app.request[q].pc = "access"
    /\ Routes[app.request[q].route].var \in globals

\* C26 (as claimed): every read and every write of the live-reading store by
\* the request-serving path is performed while the thread holds the store's
\* mutual-exclusion lock.
C26_StoreUnderLock ==
    \A q \in Requests :
        Accessing(q, {"live_db", "tcp_data"}) => "tcp_data_lock" \in Held(q)

\* C27 (as claimed): every access to data_db, fill_rate_df and drain_rate_df
\* from the request-serving path and from the recomputation loop is performed
\* while the thread holds df_lock.
C27_AggregatesUnderLock ==
    /\ \A q \in Requests :
          Accessing(q, {"data_db", "fill_rate_df", "drain_rate_df"})
              => "df_lock" \in Held(q)
    /\ app.worker = "assign" => "df_lock" \in Held("worker")

\* the sum of the edge distances along a path
PathDistance(g, p) ==
    SumSeq([i \in 1..(Len(p) - 1) |-> g.edges[p[i]][p[i + 1]].distance])

\* C31: every non-empty path returned by Graph.dijkstra begins with start,
\* ends with end, joins each consecutive pair of nodes by a directed edge and
\* repeats no node; the returned time and distance are the sums of the
\* travel_time and distance of exactly those edges.
C31_ValidWalk ==
    (result.op = "dijkstra" /\ result.route # <<>>) =>
        LET p == result.route
        IN /\ p[1] = result.start
           /\ Last(p) = result.end
           /\ \A i \in 1..(Len(p) - 1) : HasEdge(graph, p[i], p[i + 1])
           /\ \A i \in 1..Len(p), j \in 1..Len(p) : p[i] = p[j] => i = j
           /\ result.time = PathTime(graph, p)
           /\ result.distance = PathDistance(graph, p)

\* a path of two edges with computed distances came back
C31_Witness ==
    /\ result.op = "dijkstra"
    /\ Len(result.route) = 3
    /\ result.distance > 0
    /\ result.distance = PathDistance(graph, result.route)
    /\ \A i \in 1..2 : graph.edges[result.route[i]][result.route[i + 1]].distance > 0

\* the cost of going from a to b: the shortest-path time where a path
\* exists, otherwise the straight-line estimate, None where there is neither
LegCost(g, a, b) ==
    LET r == dijkstra(g, a, b)
    IN IF r.path # <<>> /\ r.time # Inf THEN r.time
       ELSE IF HasCoords(g, a, b) THEN EstimatedTime(DirectDistance(g, a, b))
       ELSE None

\* the time of the tour that calls at the sites in the given order and then
\* goes to end; a site with no costed leg adds nothing and is not moved to
RECURSIVE TourTime(_, _, _, _)
TourTime(g, current, order, end) ==
    IF order = <<>>
    THEN IF current = end \/ LegCost(g, current, end) = None THEN 0
         ELSE LegCost(g, current, end)
    ELSE IF LegCost(g, current, Head(order)) = None
         THEN TourTime(g, current, Tail(order), end)
         ELSE LegCost(g, current, Head(order))
                + TourTime(g, Head(order), Tail(order), end)

\* s is t with some elements left out
IsSubSeq(s, t) ==
    \E f \in [1..Len(s) -> 1..Len(t)] :
        /\ \A i \in 1..Len(s) : t[f[i]] = s[i]
        /\ \A i \in 1..(Len(s) - 1) : f[i] < f[i + 1]

\* C32 (as claimed): the total time returned by optimize_route is the sum of
\* the costs of the legs of its route, taken in the order in which the route
\* calls at the requested sites, plus the cost of the final leg to the end
\* site; a site appended without a costed segment adds nothing.
C32_AdditiveTime ==
    result.op = "optimize_route" =>
        \E order \in Orders(Range(result.visit) \cap DOMAIN graph.nodes) :
            /\ IsSubSeq(order, result.route)
            /\ result.time = TourTime(graph, result.start, order, result.end)

\* the volumes of the trips that visit the cauldron alone, in the order in
\* which they were opened
TripVolumes(cauldron_id) ==
    LET trips == SelectSeq(sched.assignments,
                           LAMBDA a : a.cauldrons_visited = <<cauldron_id>>)
    IN [i \in 1..Len(trips) |-> trips[i].volume_collected]

\* the high-rate loop is over and no pickup has been piggybacked yet
HighRateDone == sched.pc = "low_rate"

\* C33: for each high-rate cauldron create_daily_schedule opens at most two
\* trips, the first collecting min(70, v) and the second min(30, v - first)
\* with v = min(current_level, 0.8 * max_volume); a trip is opened only when
\* its volume is positive, and the volumes of the trips sum to min(v, 100).
C33_HighRateSplit ==
    HighRateDone =>
        \A k \in 1..Len(sched.high_rate_cauldrons) :
            LET c == sched.high_rate_cauldrons[k]
                v == IF c.current_level < Pct80(c.max_volume)
                     THEN c.current_level ELSE Pct80(c.max_volume)
                first == IF v < 70 THEN v ELSE 70
                second == IF v - first < 30 THEN v - first ELSE 30
                expected == (IF first > 0 THEN <<first>> ELSE <<>>)
                              \o (IF second > 0 THEN <<second>> ELSE <<>>)
            IN /\ TripVolumes(c.cauldron_id) = expected
               /\ Len(TripVolumes(c.cauldron_id)) <= 2
               /\ SumSeq(TripVolumes(c.cauldron_id)) = (IF v < 100 THEN v ELSE 100)

\* three high-rate cauldrons: one split 70 + 30 out of 120 L, one split
\* 70 + 10, one with nothing to collect and no trip
C33_Witness ==
    /\ HighRateDone
    /\ Len(sched.high_rate_cauldrons) = 3
    /\ \E k \in 1..3 : TripVolumes(sched.high_rate_cauldrons[k].cauldron_id) = <<70, 30>>
    /\ \E k \in 1..3 : TripVolumes(sched.high_rate_cauldrons[k].cauldron_id) = <<70, 10>>
    /\ \E k \in 1..3 : TripVolumes(sched.high_rate_cauldrons[k].cauldron_id) = <<>>

\* the volume of the pickup need of a cauldron
NeedVolume(cauldron_id) ==
    (CHOOSE p \in Range(sched.low_rate_pickups) :
         p.cauldron_id = cauldron_id).volume_to_collect

\* the volume of the split of a high-rate cauldron that the i-th assignment
\* of the plan carries: the first witch's when no earlier assignment went to
\* the cauldron, else the second witch's
SplitVolume(i) ==
    LET id == sched.plan.assignments[i].cauldrons_visited[1]
        c == CHOOSE h \in Range(sched.high_rate_cauldrons) : h.cauldron_id = id
        v == IF c.current_level < Pct80(c.max_volume)
             THEN c.current_level ELSE Pct80(c.max_volume)
        first == IF v < 70 THEN v ELSE 70
        second == IF v - first < 30 THEN v - first ELSE 30
        earlier == {j \in 1..(i - 1) :
                       sched.plan.assignments[j].cauldrons_visited[1] = id}
    IN IF earlier = {} THEN first ELSE second

\* the volumes assigned to the sites of the i-th assignment of the plan
AssignedVolume(i) ==
    LET a == sched.plan.assignments[i]
    IN IF a.category = "High Rate"
       THEN SplitVolume(i)
              + SumSeq([k \in 1..(Len(a.cauldrons_visited) - 1) |->
                           NeedVolume(a.cauldrons_visited[k + 1])])
       ELSE SumSeq([k \in 1..Len(a.cauldrons_visited) |->
                       NeedVolume(a.cauldrons_visited[k])])

\* C34 (as claimed): in every plan each assignment's volume_collected is the
\* sum of the volumes assigned to the sites of its cauldrons_visited, the
\* high-rate split volume or the need's volume_to_collect, also after a
\* low-rate pickup has been piggybacked onto the assignment.
C34_VolumeIsSum ==
    FullPlan =>
        \A i \in 1..Len(sched.plan.assignments) :
            sched.plan.assignments[i].volume_collected = AssignedVolume(i)

\* C35: the packing loop of create_daily_schedule terminates: each pass
\* either stops the loop or assigns at least one remaining need and removes
\* it from remaining_pickups, also when a need exceeds the courier capacity.
C35_PackingTerminates ==
    [][sched.pc = "pack" =>
          \/ sched'.pc = "format"
          \/ /\ Len(sched'.remaining_pickups) < Len(sched.remaining_pickups)
             /\ Len(sched'.assignments) = Len(sched.assignments) + 1
             /\ Range(sched'.remaining_pickups) \subseteq Range(sched.remaining_pickups)]_vars

\* the loop opened a trip and then stopped with a need left that no witch
\* can carry
C35_Witness ==
    /\ sched.pc = "format"
    /\ \E i \in 1..Len(sched.assignments) :
          sched.assignments[i].category = "Low Rate (80%)"
    /\ sched.remaining_pickups # <<>>
    /\ \A i \in 1..Len(sched.remaining_pickups) :
          sched.remaining_pickups[i].volume_to_collect > WITCH_CAPACITY

\* C37 (as claimed): whenever no thread is inside a critical section of
\* clients_lock, the 'connected' flag of the store is False when the
\* connected-clients list is empty and True when it is not.
C37_FlagTracksClients ==
    (tcp.pc # "off" /\ tcp.clients_lock = "free") =>
        (tcp.latest_data.connected <=> tcp.connected_clients # <<>>)

(***************************************************************************)
(* tcp_server.py: start() and stop()                                       *)
(*                                                                         *)
(* The calls of start() and stop() come one after the other from the       *)
(* owner of the server; each start() that finds the server not running     *)
(* creates a socket and two daemon threads, server_loop and poll_clients.  *)
(* A loop thread is at "test" before its `while self.running`, at "body"   *)
(* inside the loop, at "ended" when the test has failed.  `stale` marks a  *)
(* thread that was alive when stop() was called, `resumed` a stale thread  *)
(* that has passed its test again.                                         *)
(***************************************************************************)
MaxStarts == 2

Loops == {"server_loop", "poll_clients"}

NoLoop == [pc |-> "unborn", stale |-> FALSE, resumed |-> FALSE]

NewLoop == [pc |-> "test", stale |-> FALSE, resumed |-> FALSE]

\* TCPServer.__init__
ServerCreated ==
    [pc |-> "created", running |-> FALSE, socket |-> None, starts |-> 0,
     thread |-> [k \in Loops |-> [g \in 1..MaxStarts |-> NoLoop]]]

ServerInit ==
    /\ graph = NewGraph
    /\ built = "new"
    /\ result = NoCall
    /\ env = EnvIdle
    /\ sched = SchedIdle
    /\ fcst = NoForecast
    /\ slp = NoSeries
    /\ tcp = ServerCreated
    /\ app = NotStarted

\* start(): nothing when running, else the socket and the two threads
ServerStart ==
    /\ tcp.starts < MaxStarts
    /\ IF tcp.running
       THEN tcp' = [tcp EXCEPT !.starts = @ + 1]
       ELSE tcp' = [tcp EXCEPT !.starts = @ + 1,
                               !.running = TRUE,
                               !.socket = tcp.starts + 1,
                               !.thread = [k \in Loops |->
                                   [tcp.thread[k] EXCEPT ![tcp.starts + 1] = NewLoop]]]
    /\ UNCHANGED tcpFrame

\* start() when bind or listen raises: running is reset and no thread starts
ServerStartFails ==
    /\ tcp.starts < MaxStarts
    /\ ~tcp.running
    /\ tcp' = [tcp EXCEPT !.starts = @ + 1, !.socket = tcp.starts + 1]
    /\ UNCHANGED tcpFrame

\* stop(): running is cleared, the clients and the socket are closed; the
\* socket object stays in self.socket
ServerStop ==
    /\ tcp.running
    /\ tcp' = [tcp EXCEPT !.running = FALSE,
                          !.thread = [k \in Loops |-> [g \in 1..MaxStarts |->
                              IF tcp.thread[k][g].pc \in {"test", "body"}
                              THEN [tcp.thread[k][g] EXCEPT !.stale = TRUE]
                              ELSE tcp.thread[k][g]]]]
    /\ UNCHANGED tcpFrame

\* `while self.running:` of server_loop or of poll_clients
LoopTest(k, g) ==
    /\ tcp.thread[k][g].pc = "test"
    /\ tcp' = [tcp EXCEPT !.thread[k][g] =
                   IF tcp.running
                   THEN [@ EXCEPT !.pc = "body", !.resumed = @ \/ tcp.thread[k][g].stale]
                   ELSE [@ EXCEPT !.pc = "ended"]]
    /\ UNCHANGED tcpFrame

\* one pass of the loop body: accept() on self.socket returns or raises, or
\* the second of sleep and the round of polls are over
LoopBody(k, g) ==
    /\ tcp.thread[k][g].pc = "body"
    /\ tcp' = [tcp EXCEPT !.thread[k][g].pc = "test"]
    /\ UNCHANGED tcpFrame

ServerNext ==
    \/ ServerStart
    \/ ServerStartFails
    \/ ServerStop
    \/ \E k \in Loops, g \in 1..MaxStarts : LoopTest(k, g)
    \/ \E k \in Loops, g \in 1..MaxStarts : LoopBody(k, g)

ServerSpec == ServerInit /\ [][ServerNext]_vars

\* the loops of one kind that run: started since the last stop(), or
\* started before it and past their test again
ActiveLoops(k) ==
    {g \in 1..MaxStarts :
        /\ tcp.thread[k][g].pc \in {"test", "body"}
        /\ ~tcp.thread[k][g].stale \/ tcp.thread[k][g].resumed}

\* C38 (as claimed): for any sequence of start() and stop() calls at most one
\* accept loop and at most one polling loop are active at any time, and a
\* loop that was running when stop() was called never resumes, also when
\* start() is called again at once.
C38_OneLoopOfEach ==
    \A k \in Loops :
        /\ Cardinality(ActiveLoops(k)) <= 1
        /\ \A g \in 1..MaxStarts : ~tcp.thread[k][g].resumed

(***************************************************************************)
(* tcp_server.py: the two locks                                            *)
(*                                                                         *)
(* Every `with` statement of the class as the sequence of lock operations  *)
(* it performs.  A thread that is in no `with` statement enters any of the *)
(* statements of its function; which one it enters, and whether the `if`   *)
(* around an inner `with` is taken, depends on data and is left open.      *)
(* threading.Lock is not reentrant: acquire waits until the lock is free,  *)
(* whoever holds it.                                                       *)
(***************************************************************************)
Acquire(l) == [op |-> "acquire", lock |-> l]

Release(l) == [op |-> "release", lock |-> l]

\* with <l>: <body>
With(l, body) == <<Acquire(l)>> \o body \o <<Release(l)>>

LockThreads == Conns \cup {"poll_clients", "stop", "get_latest_data"}

\* the with statements with the locks taken in the other order
WithStatements_inverted(t) ==
    IF t \in Conns
    THEN {With("clients_lock", With("lock", <<>>)), With("lock", <<>>)}
    ELSE IF t = "poll_clients"
    THEN {With("lock", With("clients_lock", <<>>))}
    ELSE IF t = "stop" THEN {With("clients_lock", <<>>)}
    ELSE {With("lock", <<>>)}

\* the with statements of the function a thread runs
WithStatements(t) ==
    IF t \in Conns
    THEN {With("clients_lock", With("lock", <<>>)),  \* lines 36-39, 72-75
          With("clients_lock", <<>>),                \* lines 65-67, 72-73
          With("lock", <<>>)}                        \* lines 94-101, 114-121
    ELSE IF t = "poll_clients"
    THEN {With("clients_lock", <<>>),                \* lines 134-136, 147-149, 158-160
          With("clients_lock", With("lock", <<>>))}  \* lines 163-166
    ELSE IF t = "stop"
    THEN {With("clients_lock", <<>>)}                \* lines 214-220
    ELSE {With("lock", <<>>)}                        \* lines 231-232

LocksCreated ==
    [pc |-> "locks", lock |-> "free", clients_lock |-> "free",
     todo |-> [t \in LockThreads |-> <<>>]]

LocksInit ==
    /\ graph = NewGraph
    /\ built = "new"
    /\ result = NoCall
    /\ env = EnvIdle
    /\ sched = SchedIdle
    /\ fcst = NoForecast
    /\ slp = NoSeries
    /\ tcp = LocksCreated
    /\ app = NotStarted

\* a thread reaches a with statement
WithEnter(t) ==
    /\ tcp.todo[t] = <<>>
    /\ \E w \in WithStatements(t) : tcp' = [tcp EXCEPT !.todo[t] = w]
    /\ UNCHANGED tcpFrame

\* Lock.acquire
LockAcquire(t) ==
    /\ tcp.todo[t] # <<>>
    /\ Head(tcp.todo[t]).op = "acquire"
    /\ tcp[Head(tcp.todo[t]).lock] = "free"
    /\ tcp' = [tcp EXCEPT ![Head(tcp.todo[t]).lock] = t, !.todo[t] = Tail(@)]
    /\ UNCHANGED tcpFrame

\* Lock.release at the end of the with block
LockRelease(t) ==
    /\ tcp.todo[t] # <<>>
    /\ Head(tcp.todo[t]).op = "release"
    /\ tcp' = [tcp EXCEPT ![Head(tcp.todo[t]).lock] = "free", !.todo[t] = Tail(@)]
    /\ UNCHANGED tcpFrame

LocksNext ==
    \/ \E t \in LockThreads : WithEnter(t)
    \/ \E t \in LockThreads : LockAcquire(t)
    \/ \E t \in LockThreads : LockRelease(t)

LocksSpec == LocksInit /\ [][LocksNext]_vars

\* a thread inside a with statement goes on whenever it can; a lock that
\* is released again and again is not refused to a waiting thread for ever
LocksFairness ==
    \A t \in LockThreads : SF_vars(LockAcquire(t)) /\ WF_vars(LockRelease(t))

LocksFairSpec == LocksSpec /\ LocksFairness

\* the thread waits for lock l
WaitsFor(t, l) ==
    /\ tcp.todo[t] # <<>>
    /\ Head(tcp.todo[t]) = Acquire(l)

\* no thread asks for clients_lock while it holds the store lock
LockOrder ==
    \A t \in LockThreads : WaitsFor(t, "clients_lock") => tcp.lock # t

\* when a thread waits for a lock, some thread inside a with statement can
\* take its next step
NoDeadlock ==
    (\E t \in LockThreads : tcp.todo[t] # <<>>) =>
        \E t \in LockThreads :
            /\ tcp.todo[t] # <<>>
            /\ \/ Head(tcp.todo[t]).op = "release"
               \/ tcp[Head(tcp.todo[t]).lock] = "free"

C39_FailedCycleKeepsAggregates ==
    /\ app.outcome = "failed" => Aggregates = app.previous
    /\ app.worker \in {"compute", "assign", "written"}
    /\ (\E q \in Requests : "df_lock" \in Held(q)) =>
           (app.data_db = app.fill_rate_df /\ app.fill_rate_df = app.drain_rate_df)

====
